---- MODULE Spec2Model ----
(***************************************************************************)
(* Task execution engine of multi_agent.py: the FormFieldTracker ledger,   *)
(* UniversalUIAgent.execute_action and the step loop of                    *)
(* UniversalUIAgent.execute_task.                                          *)
(*                                                                         *)
(* Python strings are TLA+ strings; string concatenation is \o.  The       *)
(* substring, lower(), strip() and count() tests of the source work on the *)
(* characters of a string, which Spell gives for every string the model    *)
(* uses.                                                                   *)
(***************************************************************************)
EXTENDS Integers, Sequences, FiniteSets, TLC

VARIABLES
    field_tracker,          \* UniversalUIAgent.field_tracker : FormFieldTracker
    call,                   \* the most recent call on the tracker, planner or executor, with its result
    resolver_calls,         \* field key -> resolver invocations since the last reset()
    scenario,               \* what the planner and the site can answer in this run
    pc,                     \* position of execute_task
    task,                   \* execute_task(task, ...)
    max_steps,              \* execute_task(..., max_steps)
    step,                   \* loop variable of execute_task
    page_url,               \* self.page.url
    workflow,               \* TaskWorkflow under construction
    actions_taken,
    consecutive_failures,
    same_action_count,
    last_action_signature,
    initial_url,
    creation_completed,
    action_plan,            \* the plan of the current step
    planned,                \* every plan analyze_and_plan returned, in order
    executed,               \* every execute_action call of execute_task, in order
    stop                    \* how the step loop was left

vars == <<field_tracker, call, resolver_calls, scenario, pc, task, max_steps, step,
          page_url, workflow, actions_taken, consecutive_failures, same_action_count,
          last_action_signature, initial_url, creation_completed, action_plan, planned,
          executed, stop>>

trackerVars == <<field_tracker, call, resolver_calls>>

taskVars == <<scenario, pc, task, max_steps, step, page_url, workflow, actions_taken,
              consecutive_failures, same_action_count, last_action_signature,
              initial_url, creation_completed, action_plan, planned, executed, stop>>

----------------------------------------------------------------------------
(* Strings *)

Spell(s) ==
    CASE s = "" -> <<>>
      [] s = "create" -> <<"c","r","e","a","t","e">>
      [] s = "new" -> <<"n","e","w">>
      [] s = "add" -> <<"a","d","d">>
      [] s = "repository" -> <<"r","e","p","o","s","i","t","o","r","y">>
      [] s = "project" -> <<"p","r","o","j","e","c","t">>
      [] s = "issue" -> <<"i","s","s","u","e">>
      [] s = "repo" -> <<"r","e","p","o">>
      [] s = "create repository" -> <<"c","r","e","a","t","e"," ","r","e","p","o","s","i","t","o","r","y">>
      [] s = "create project" -> <<"c","r","e","a","t","e"," ","p","r","o","j","e","c","t">>
      [] s = "create issue" -> <<"c","r","e","a","t","e"," ","i","s","s","u","e">>
      [] s = "submit new issue" -> <<"s","u","b","m","i","t"," ","n","e","w"," ","i","s","s","u","e">>
      [] s = "create pull request" -> <<"c","r","e","a","t","e"," ","p","u","l","l"," ","r","e","q","u","e","s","t">>
      [] s = "publish" -> <<"p","u","b","l","i","s","h">>
      [] s = "/projects/" -> <<"/","p","r","o","j","e","c","t","s","/">>
      [] s = "/new" -> <<"/","n","e","w">>
      [] s = "/issues/" -> <<"/","i","s","s","u","e","s","/">>
      [] s = "title" -> <<"t","i","t","l","e">>
      [] s = "body" -> <<"b","o","d","y">>
      [] s = "content" -> <<"c","o","n","t","e","n","t">>
      [] s = "name" -> <<"n","a","m","e">>
      [] s = " name " -> <<" ","n","a","m","e"," ">>
      [] s = "New project" -> <<"N","e","w"," ","p","r","o","j","e","c","t">>
      [] s = "Create repository" -> <<"C","r","e","a","t","e"," ","r","e","p","o","s","i","t","o","r","y">>
      [] s = "Create project" -> <<"C","r","e","a","t","e"," ","p","r","o","j","e","c","t">>
      [] s = "Continue" -> <<"C","o","n","t","i","n","u","e">>
      [] s = "Description" -> <<"D","e","s","c","r","i","p","t","i","o","n">>
      [] s = "Create issue" -> <<"C","r","e","a","t","e"," ","i","s","s","u","e">>
      [] s = "Create a new repository named my-test-repo" -> <<"C","r","e","a","t","e"," ","a"," ","n","e","w"," ","r","e","p","o","s","i","t","o","r","y"," ","n","a","m","e","d"," ","m","y","-","t","e","s","t","-","r","e","p","o">>
      [] s = "open settings" -> <<"o","p","e","n"," ","s","e","t","t","i","n","g","s">>
      [] s = "https://github.com" -> <<"h","t","t","p","s",":","/","/","g","i","t","h","u","b",".","c","o","m">>
      [] s = "https://github.com/new" -> <<"h","t","t","p","s",":","/","/","g","i","t","h","u","b",".","c","o","m","/","n","e","w">>
      [] s = "https://github.com/user/my-test-repo" -> <<"h","t","t","p","s",":","/","/","g","i","t","h","u","b",".","c","o","m","/","u","s","e","r","/","m","y","-","t","e","s","t","-","r","e","p","o">>
      [] s = "https://github.com/users/user/projects/new" -> <<"h","t","t","p","s",":","/","/","g","i","t","h","u","b",".","c","o","m","/","u","s","e","r","s","/","u","s","e","r","/","p","r","o","j","e","c","t","s","/","n","e","w">>
      [] s = "https://github.com/users/user/projects/1" -> <<"h","t","t","p","s",":","/","/","g","i","t","h","u","b",".","c","o","m","/","u","s","e","r","s","/","u","s","e","r","/","p","r","o","j","e","c","t","s","/","1">>
      [] s = "https://github.com/user/my-test-repo/issues/1" -> <<"h","t","t","p","s",":","/","/","g","i","t","h","u","b",".","c","o","m","/","u","s","e","r","/","m","y","-","t","e","s","t","-","r","e","p","o","/","i","s","s","u","e","s","/","1">>
      [] s = "{\"action\":\"click\",\"target\":\"New project\"}" -> <<"{","\"","a","c","t","i","o","n","\"",":","\"","c","l","i","c","k","\"",",","\"","t","a","r","g","e","t","\"",":","\"","N","e","w"," ","p","r","o","j","e","c","t","\"","}">>
      [] s = "{\"action\":\"type\",\"target\":\"name\",\"value\":\"Roadmap Q1\",\"field_purpose\":\"name\"}" -> <<"{","\"","a","c","t","i","o","n","\"",":","\"","t","y","p","e","\"",",","\"","t","a","r","g","e","t","\"",":","\"","n","a","m","e","\"",",","\"","v","a","l","u","e","\"",":","\"","R","o","a","d","m","a","p"," ","Q","1","\"",",","\"","f","i","e","l","d","_","p","u","r","p","o","s","e","\"",":","\"","n","a","m","e","\"","}">>
      [] s = "{\"action\":\"type\",\"target\":\"name\",\"value\":\"Other\",\"field_purpose\":\"name\"}" -> <<"{","\"","a","c","t","i","o","n","\"",":","\"","t","y","p","e","\"",",","\"","t","a","r","g","e","t","\"",":","\"","n","a","m","e","\"",",","\"","v","a","l","u","e","\"",":","\"","O","t","h","e","r","\"",",","\"","f","i","e","l","d","_","p","u","r","p","o","s","e","\"",":","\"","n","a","m","e","\"","}">>
      [] s = "{\"action\":\"type\",\"target\":\"name\",\"value\":\"Roadmap Q1\",\"field_purpose\":\"name\",\"target_y_position\":95}" -> <<"{","\"","a","c","t","i","o","n","\"",":","\"","t","y","p","e","\"",",","\"","t","a","r","g","e","t","\"",":","\"","n","a","m","e","\"",",","\"","v","a","l","u","e","\"",":","\"","R","o","a","d","m","a","p"," ","Q","1","\"",",","\"","f","i","e","l","d","_","p","u","r","p","o","s","e","\"",":","\"","n","a","m","e","\"",",","\"","t","a","r","g","e","t","_","y","_","p","o","s","i","t","i","o","n","\"",":","9","5","}">>
      [] s = "{\"action\":\"click\",\"target\":\"Create repository\"}" -> <<"{","\"","a","c","t","i","o","n","\"",":","\"","c","l","i","c","k","\"",",","\"","t","a","r","g","e","t","\"",":","\"","C","r","e","a","t","e"," ","r","e","p","o","s","i","t","o","r","y","\"","}">>
      [] s = "{\"action\":\"click\",\"target\":\"Continue\"}" -> <<"{","\"","a","c","t","i","o","n","\"",":","\"","c","l","i","c","k","\"",",","\"","t","a","r","g","e","t","\"",":","\"","C","o","n","t","i","n","u","e","\"","}">>
      [] s = "{\"action\":\"click\",\"target\":\"Continue\",\"is_complete\":true,\"confidence\":0.9}" -> <<"{","\"","a","c","t","i","o","n","\"",":","\"","c","l","i","c","k","\"",",","\"","t","a","r","g","e","t","\"",":","\"","C","o","n","t","i","n","u","e","\"",",","\"","i","s","_","c","o","m","p","l","e","t","e","\"",":","t","r","u","e",",","\"","c","o","n","f","i","d","e","n","c","e","\"",":","0",".","9","}">>
      [] s = "{\"action\":\"scroll\",\"is_complete\":true,\"confidence\":0.7}" -> <<"{","\"","a","c","t","i","o","n","\"",":","\"","s","c","r","o","l","l","\"",",","\"","i","s","_","c","o","m","p","l","e","t","e","\"",":","t","r","u","e",",","\"","c","o","n","f","i","d","e","n","c","e","\"",":","0",".","7","}">>
      [] s = "{\"action\":\"wait\",\"confidence\":0.3}" -> <<"{","\"","a","c","t","i","o","n","\"",":","\"","w","a","i","t","\"",",","\"","c","o","n","f","i","d","e","n","c","e","\"",":","0",".","3","}">>
      [] s = "{\"action\":\"click\",\"target\":\"Create project\"}" -> <<"{","\"","a","c","t","i","o","n","\"",":","\"","c","l","i","c","k","\"",",","\"","t","a","r","g","e","t","\"",":","\"","C","r","e","a","t","e"," ","p","r","o","j","e","c","t","\"","}">>
      [] s = "{\"action\":\"click\",\"target\":\"Create issue\"}" -> <<"{","\"","a","c","t","i","o","n","\"",":","\"","c","l","i","c","k","\"",",","\"","t","a","r","g","e","t","\"",":","\"","C","r","e","a","t","e"," ","i","s","s","u","e","\"","}">>
      [] s = "{\"action\":\"wait\",\"target\":null}" -> <<"{","\"","a","c","t","i","o","n","\"",":","\"","w","a","i","t","\"",",","\"","t","a","r","g","e","t","\"",":","n","u","l","l","}">>
      [] s = "{\"is_complete\":true,\"confidence\":0.9}" -> <<"{","\"","i","s","_","c","o","m","p","l","e","t","e","\"",":","t","r","u","e",",","\"","c","o","n","f","i","d","e","n","c","e","\"",":","0",".","9","}">>
      [] s = "{\"action\":\"click\",\"target\":}" -> <<"{","\"","a","c","t","i","o","n","\"",":","\"","c","l","i","c","k","\"",",","\"","t","a","r","g","e","t","\"",":","}">>
      [] s = "Next step: {\"action\":\"click\",\"target\":\"Continue\"} " -> <<"N","e","x","t"," ","s","t","e","p",":"," ","{","\"","a","c","t","i","o","n","\"",":","\"","c","l","i","c","k","\"",",","\"","t","a","r","g","e","t","\"",":","\"","C","o","n","t","i","n","u","e","\"","}"," ">>
      [] s = "I cannot see the page" -> <<"I"," ","c","a","n","n","o","t"," ","s","e","e"," ","t","h","e"," ","p","a","g","e">>
      [] s = "} then {" -> <<"}"," ","t","h","e","n"," ","{">>
      [] s = "Issues" -> <<"I","s","s","u","e","s">>
      [] s = "Create a new repository" -> <<"C","r","e","a","t","e"," ","a"," ","n","e","w"," ","r","e","p","o","s","i","t","o","r","y">>
      [] s = "Save and continue" -> <<"S","a","v","e"," ","a","n","d"," ","c","o","n","t","i","n","u","e">>
      [] s = "Submit and continue" -> <<"S","u","b","m","i","t"," ","a","n","d"," ","c","o","n","t","i","n","u","e">>
      [] s = "Project name" -> <<"P","r","o","j","e","c","t"," ","n","a","m","e">>
      [] s = "continue" -> <<"c","o","n","t","i","n","u","e">>
      [] s = "next" -> <<"n","e","x","t">>
      [] s = "proceed" -> <<"p","r","o","c","e","e","d">>
      [] s = "choose" -> <<"c","h","o","o","s","e">>
      [] s = "select" -> <<"s","e","l","e","c","t">>
      [] s = "skip" -> <<"s","k","i","p">>
      [] s = "submit" -> <<"s","u","b","m","i","t">>
      [] s = "save" -> <<"s","a","v","e">>
      [] s = "Save" -> <<"S","a","v","e">>

Strings ==
    {"",
     "create",
     "new",
     "add",
     "repository",
     "project",
     "issue",
     "repo",
     "create repository",
     "create project",
     "create issue",
     "submit new issue",
     "create pull request",
     "publish",
     "/projects/",
     "/new",
     "/issues/",
     "title",
     "body",
     "content",
     "name",
     " name ",
     "New project",
     "Create repository",
     "Create project",
     "Continue",
     "Description",
     "Create issue",
     "Create a new repository named my-test-repo",
     "open settings",
     "https://github.com",
     "https://github.com/new",
     "https://github.com/user/my-test-repo",
     "https://github.com/users/user/projects/new",
     "https://github.com/users/user/projects/1",
     "https://github.com/user/my-test-repo/issues/1",
     "{\"action\":\"click\",\"target\":\"New project\"}",
     "{\"action\":\"type\",\"target\":\"name\",\"value\":\"Roadmap Q1\",\"field_purpose\":\"name\"}",
     "{\"action\":\"type\",\"target\":\"name\",\"value\":\"Other\",\"field_purpose\":\"name\"}",
     "{\"action\":\"type\",\"target\":\"name\",\"value\":\"Roadmap Q1\",\"field_purpose\":\"name\",\"target_y_position\":95}",
     "{\"action\":\"click\",\"target\":\"Create repository\"}",
     "{\"action\":\"click\",\"target\":\"Continue\"}",
     "{\"action\":\"click\",\"target\":\"Continue\",\"is_complete\":true,\"confidence\":0.9}",
     "{\"action\":\"scroll\",\"is_complete\":true,\"confidence\":0.7}",
     "{\"action\":\"wait\",\"confidence\":0.3}",
     "{\"action\":\"click\",\"target\":\"Create project\"}",
     "{\"action\":\"click\",\"target\":\"Create issue\"}",
     "{\"action\":\"wait\",\"target\":null}",
     "{\"is_complete\":true,\"confidence\":0.9}",
     "{\"action\":\"click\",\"target\":}",
     "Next step: {\"action\":\"click\",\"target\":\"Continue\"} ",
     "I cannot see the page",
     "} then {",
     "Issues",
     "Create a new repository",
     "Save and continue",
     "Submit and continue",
     "Project name",
     "continue",
     "next",
     "proceed",
     "choose",
     "select",
     "skip",
     "submit",
     "save",
     "Save"}

\* str.lower() on one character
LowerChar(c) ==
    CASE c = "A" -> "a" [] c = "B" -> "b" [] c = "C" -> "c" [] c = "D" -> "d"
      [] c = "E" -> "e" [] c = "F" -> "f" [] c = "G" -> "g" [] c = "H" -> "h"
      [] c = "I" -> "i" [] c = "J" -> "j" [] c = "K" -> "k" [] c = "L" -> "l"
      [] c = "M" -> "m" [] c = "N" -> "n" [] c = "O" -> "o" [] c = "P" -> "p"
      [] c = "Q" -> "q" [] c = "R" -> "r" [] c = "S" -> "s" [] c = "T" -> "t"
      [] c = "U" -> "u" [] c = "V" -> "v" [] c = "W" -> "w" [] c = "X" -> "x"
      [] c = "Y" -> "y" [] c = "Z" -> "z" [] OTHER -> c

\* cs.lower() on characters
LowerChars(cs) == [i \in 1..Len(cs) |-> LowerChar(cs[i])]

\* s.lower() for every string of the model, worked out once
LowerTable == [s \in Strings |-> LowerChars(Spell(s))]

\* the characters of s.lower()
Lower(s) == LowerTable[s]

\* needle in hay, on characters
Contains(needle, hay) ==
    \E i \in 0..(Len(hay) - Len(needle)) : SubSeq(hay, i + 1, i + Len(needle)) = needle

\* hay.count(c) for a single character c
CountChar(c, hay) == Cardinality({i \in 1..Len(hay) : hay[i] = c})

\* the characters of s.strip()
StripChars(cs) ==
    LET keep == {i \in 1..Len(cs) : cs[i] # " "}
    IN  IF keep = {} THEN <<>>
        ELSE SubSeq(cs, CHOOSE i \in keep : \A j \in keep : i <= j,
                        CHOOSE i \in keep : \A j \in keep : j <= i)

\* s.strip() for every string of the model whose stripped form is one, worked
\* out once
StripTable ==
    [s \in {x \in Strings : \E t \in Strings : Spell(t) = StripChars(Spell(x))} |->
        CHOOSE t \in Strings : Spell(t) = StripChars(Spell(s))]

\* s.strip() as a string
Strip(s) == StripTable[s]

\* s[:n] as a string
Prefix(s, n) ==
    LET cs == Spell(s)
    IN  IF Len(cs) <= n THEN s ELSE CHOOSE t \in Strings : Spell(t) = SubSeq(cs, 1, n)

----------------------------------------------------------------------------
(* FormFieldTracker *)

\* the tracker harness stops marking a key at this attempt count
MaxAttempts == 2

\* a Python dict is a function on its keys
EmptyDict == [k \in {} |-> ""]

Put(d, k, v) == [x \in (DOMAIN d) \cup {k} |-> IF x = k THEN v ELSE d[x]]

Get(d, k, default) == IF k \in DOMAIN d THEN d[k] ELSE default

\* FormFieldTracker.__init__
FreshTracker ==
    [filled_fields    |-> EmptyDict,
     field_attempts   |-> EmptyDict,
     filled_positions |-> {},
     content_created  |-> FALSE,
     choice_made      |-> FALSE,
     in_creation_flow |-> FALSE]

\* position_y // 100
Bucket(position_y) == position_y \div 100

create_field_key(field_id, purpose, position_y) ==
    field_id \o "|" \o purpose \o "|" \o ToString(Bucket(position_y))

mark_filled_replacing(t, field_id, purpose, value, position_y) ==
    LET field_key == create_field_key(field_id, purpose, position_y)
    IN  [t EXCEPT !.filled_fields    = Put(EmptyDict, field_key, value),
                  !.field_attempts   = Put(@, field_key, Get(@, field_key, 0) + 1),
                  !.filled_positions = @ \cup {Bucket(position_y)}]

mark_filled_counting_once(t, field_id, purpose, value, position_y) ==
    LET field_key == create_field_key(field_id, purpose, position_y)
    IN  [t EXCEPT !.filled_fields    = Put(@, field_key, value),
                  !.field_attempts   = Put(@, field_key, 1),
                  !.filled_positions = @ \cup {Bucket(position_y)}]

mark_filled(t, field_id, purpose, value, position_y) ==
    LET field_key == create_field_key(field_id, purpose, position_y)
    IN  [t EXCEPT !.filled_fields    = Put(@, field_key, value),
                  !.field_attempts   = Put(@, field_key, Get(@, field_key, 0) + 1),
                  !.filled_positions = @ \cup {Bucket(position_y)}]

is_filled(t, field_id, purpose, position_y) ==
    create_field_key(field_id, purpose, position_y) \in DOMAIN t.filled_fields

get_attempts(t, field_id, purpose, position_y) ==
    Get(t.field_attempts, create_field_key(field_id, purpose, position_y), 0)

reset_keeping_attempts(t) ==
    [t EXCEPT !.filled_fields    = EmptyDict,
              !.filled_positions = {},
              !.content_created  = FALSE,
              !.choice_made      = FALSE,
              !.in_creation_flow = FALSE]

reset(t) ==
    [t EXCEPT !.filled_fields    = EmptyDict,
              !.field_attempts   = EmptyDict,
              !.filled_positions = {},
              !.content_created  = FALSE,
              !.choice_made      = FALSE,
              !.in_creation_flow = FALSE]

\* arguments the harness calls the tracker with
FieldIds == {"name", "name|other"}
Purposes == {"other", "other|other"}
Values == {"Roadmap Q1", "Other"}
Positions == {0, 95, 105}

\* the tracker harness fills at most this many distinct keys
MaxFields == Cardinality(FieldIds)

\* execute_task is not running
IdleTask ==
    /\ scenario = [plans |-> {}, urls |-> {}]
    /\ pc = "idle"
    /\ task = ""
    /\ max_steps = 0
    /\ step = 0
    /\ page_url = ""
    /\ workflow = [states |-> <<>>, total_steps |-> 0, completion_status |-> ""]
    /\ actions_taken = <<>>
    /\ consecutive_failures = 0
    /\ same_action_count = 0
    /\ last_action_signature = ""
    /\ initial_url = ""
    /\ creation_completed = FALSE
    /\ action_plan = [action |-> ""]
    /\ planned = <<>>
    /\ executed = <<>>
    /\ stop = "none"

InitTracker ==
    /\ field_tracker = FreshTracker
    /\ call = [op |-> "init"]
    /\ resolver_calls = EmptyDict
    /\ IdleTask

MarkFilledCall ==
    \E field_id \in FieldIds, purpose \in Purposes, value \in Values, position_y \in Positions :
        /\ get_attempts(field_tracker, field_id, purpose, position_y) < MaxAttempts
        /\ \/ is_filled(field_tracker, field_id, purpose, position_y)
           \/ Cardinality(DOMAIN field_tracker.filled_fields) < MaxFields
        /\ field_tracker' = mark_filled(field_tracker, field_id, purpose, value, position_y)
        /\ call' = [op |-> "mark_filled", field_id |-> field_id, purpose |-> purpose,
                    value |-> value, position_y |-> position_y]
        /\ UNCHANGED <<resolver_calls, taskVars>>

IsFilledCall ==
    \E field_id \in FieldIds, purpose \in Purposes, position_y \in Positions :
        /\ call' = [op |-> "is_filled", field_id |-> field_id, purpose |-> purpose,
                    position_y |-> position_y,
                    ret |-> is_filled(field_tracker, field_id, purpose, position_y)]
        /\ UNCHANGED <<field_tracker, resolver_calls, taskVars>>

GetAttemptsCall ==
    \E field_id \in FieldIds, purpose \in Purposes, position_y \in Positions :
        /\ call' = [op |-> "get_attempts", field_id |-> field_id, purpose |-> purpose,
                    position_y |-> position_y,
                    ret |-> get_attempts(field_tracker, field_id, purpose, position_y)]
        /\ UNCHANGED <<field_tracker, resolver_calls, taskVars>>

\* the executor's write of the phase flag
MarkContentCreated ==
    /\ field_tracker' = [field_tracker EXCEPT !.content_created = TRUE]
    /\ call' = [op |-> "content_created"]
    /\ UNCHANGED <<resolver_calls, taskVars>>

ResetCall ==
    /\ field_tracker' = reset(field_tracker)
    /\ call' = [op |-> "reset", before |-> field_tracker]
    /\ UNCHANGED <<resolver_calls, taskVars>>

NextTracker ==
    \/ MarkFilledCall
    \/ IsFilledCall
    \/ GetAttemptsCall
    \/ MarkContentCreated
    \/ ResetCall

SpecTracker == InitTracker /\ [][NextTracker]_vars

\* C9: once mark_filled(k, v) has run, is_filled(k) is true, and it stays true
\* across every later mark_filled, is_filled and get_attempts call on any key;
\* only reset() can make it false.
C9_FilledUntilReset ==
    [][/\ call'.op = "mark_filled" =>
            is_filled(field_tracker', call'.field_id, call'.purpose, call'.position_y)
       /\ \A field_id \in FieldIds, purpose \in Purposes, position_y \in Positions :
            (is_filled(field_tracker, field_id, purpose, position_y) /\ call'.op # "reset")
                => is_filled(field_tracker', field_id, purpose, position_y)]_vars

\* two keys are filled and the last call marked one of them a second time
C9_Witness ==
    /\ call.op = "mark_filled"
    /\ Cardinality(DOMAIN field_tracker.filled_fields) = 2
    /\ get_attempts(field_tracker, call.field_id, call.purpose, call.position_y) = 2

\* C10: right after reset() the tracker equals a freshly constructed one: every
\* key filled before is no longer filled and has 0 attempts, filled_positions
\* is empty and the three phase flags are False.
C10_ResetIsFresh ==
    call.op = "reset" =>
        /\ field_tracker = FreshTracker
        /\ \A field_id \in FieldIds, purpose \in Purposes, position_y \in Positions :
            is_filled(call.before, field_id, purpose, position_y) =>
                /\ ~is_filled(field_tracker, field_id, purpose, position_y)
                /\ get_attempts(field_tracker, field_id, purpose, position_y) = 0

\* reset() ran on a tracker with filled keys, used positions and a raised flag
C10_Witness ==
    /\ call.op = "reset"
    /\ Cardinality(DOMAIN call.before.filled_fields) = 2
    /\ call.before.filled_positions # {}
    /\ call.before.content_created

----------------------------------------------------------------------------
(* UniversalUIAgent.execute_action *)

\* the harness gives up calling a resolver for one key after this many calls
MaxResolverCalls == 3

\* Python's None, the value of a key the planner's JSON gives as null; in an
\* f-string it prints as this text
None == "None"

\* An action plan as execute_action reads it: a key the planner left out has
\* the default the code's .get() gives it.  confidence is in tenths.
Plan(action, target, value, field_purpose, target_y_position, is_complete, confidence) ==
    [action            |-> action,
     target            |-> target,
     value             |-> value,
     field_purpose     |-> field_purpose,
     target_y_position |-> target_y_position,
     wait_after        |-> 1500,
     is_complete       |-> is_complete,
     confidence        |-> confidence]

\* any(word in target.lower() for word in ['create', 'new', 'add', ...])
IsCreationIntent(target) ==
    \E word \in {"create", "new", "add", "repository", "project", "issue"} :
        Contains(Spell(word), Lower(target))

\* What the delegated call of execute_action can do: return (success, message),
\* or raise.  url is the page's URL after the call; only a click or a key press
\* that went through can have navigated.
Returned(success, message, url) ==
    [raises |-> FALSE, success |-> success, message |-> message, url |-> url]

Raised(url) ==
    [raises |-> TRUE, success |-> FALSE, message |-> "driver exception", url |-> url]

SmartClickResults(target, url, urls) ==
    {Returned(TRUE, "Clicked using strategy 1", u) : u \in urls \cup {url}}
        \cup {Returned(FALSE, "Could not click: " \o target, url), Raised(url)}

SmartTypeResults(target, url) ==
    {Returned(TRUE, "Typed using strategy 1", url),
     Returned(FALSE, "Could not find field: " \o target, url),
     Raised(url)}

TypeContenteditableResults(target, url) ==
    {Returned(TRUE, "Typed into contenteditable using strategy 1", url),
     Returned(FALSE, "Could not type into contenteditable: " \o target, url),
     Raised(url)}

KeyboardPressResults(url, urls) ==
    {Returned(TRUE, "", u) : u \in urls \cup {url}} \cup {Raised(url)}

WaitResults(url) == {Returned(TRUE, "", url), Raised(url)}

Outcomes(plan, url, urls) ==
    CASE plan.target = None -> {Returned(FALSE, "", url)}
      [] plan.action \in {"click", "navigate"} -> SmartClickResults(Strip(plan.target), url, urls)
      [] plan.action = "type" -> SmartTypeResults(Strip(plan.target), url)
      [] plan.action = "type_contenteditable" ->
            TypeContenteditableResults(Strip(plan.target), url)
      [] plan.action = "press_key" -> KeyboardPressResults(url, urls)
      [] plan.action = "wait" -> WaitResults(url)
      [] OTHER -> {Returned(TRUE, "", url)}

\* the outer except clause of execute_action
Caught(t, resolver) ==
    [success |-> FALSE, message |-> "Error: driver exception", tracker |-> t,
     resolver |-> resolver, reset |-> FALSE, raises |-> FALSE]

\* an exception of the two statements before the try block leaves execute_action
Propagated(t) ==
    [success |-> FALSE, message |-> "AttributeError", tracker |-> t,
     resolver |-> "none", reset |-> FALSE, raises |-> TRUE]

\* what one call leaves: the pair it returns, the tracker, the resolver it ran
\* and whether it called reset()
Result(success, message, t, resolver) ==
    [success |-> success, message |-> message, tracker |-> t, resolver |-> resolver,
     reset |-> FALSE, raises |-> FALSE]

AlreadyFilledNever(t, field_id, field_purpose, target_y) == FALSE

\* the is_filled veto of the two typing branches
AlreadyFilled(t, field_id, field_purpose, target_y) ==
    is_filled(t, field_id, field_purpose, target_y)

\* the attempt cap of the two typing branches
TooManyAttempts(t, field_id, field_purpose, target_y) ==
    get_attempts(t, field_id, field_purpose, target_y) >= 2

ExecuteClickResetting(t, target, o) ==
    IF o.raises THEN Caught(t, "_smart_click")
    ELSE IF o.success
        THEN [Result(o.success, o.message, reset(t), "_smart_click") EXCEPT !.reset = TRUE]
    ELSE Result(o.success, o.message, t, "_smart_click")

\* the click / navigate branch
ExecuteClick(t, target, o) ==
    IF o.raises THEN Caught(t, "_smart_click")
    ELSE IF o.success /\ IsCreationIntent(target)
        THEN [Result(o.success, o.message, reset(t), "_smart_click") EXCEPT !.reset = TRUE]
    ELSE Result(o.success, o.message, t, "_smart_click")

\* the type_contenteditable branch
ExecuteTypeContenteditable(t, plan, target, o) ==
    LET value == plan.value
        field_purpose == plan.field_purpose
        target_y == plan.target_y_position
        field_id == target
    IN  IF AlreadyFilled(t, field_id, field_purpose, target_y)
            THEN Result(TRUE, "Skipped (already filled)", t, "none")
        ELSE IF TooManyAttempts(t, field_id, field_purpose, target_y)
            THEN Result(TRUE, "Skipped (too many attempts)", t, "none")
        ELSE IF o.raises THEN Caught(t, "_type_contenteditable")
        ELSE IF o.success
            THEN Result(TRUE, o.message,
                        LET marked == mark_filled(t, field_id, field_purpose, value, target_y)
                        IN  IF field_purpose \in {"title", "body", "content"}
                                THEN [marked EXCEPT !.content_created = TRUE]
                                ELSE marked,
                        "_type_contenteditable")
        ELSE Result(FALSE, o.message, t, "_type_contenteditable")

ExecuteTypeOverwriting(t, plan, target, o) ==
    LET value == plan.value
        field_purpose == plan.field_purpose
        target_y == plan.target_y_position
        field_id == target
        field_key == create_field_key(field_id, field_purpose, target_y)
    IN  IF /\ AlreadyFilled(t, field_id, field_purpose, target_y)
           /\ t.filled_fields[field_key] = value
            THEN Result(TRUE, "Skipped (already filled)", t, "none")
        ELSE IF TooManyAttempts(t, field_id, field_purpose, target_y)
            THEN Result(TRUE, "Skipped (too many attempts)", t, "none")
        ELSE IF o.raises THEN Caught(t, "_smart_type")
        ELSE IF o.success
            THEN Result(TRUE, o.message,
                        mark_filled(t, field_id, field_purpose, value, target_y),
                        "_smart_type")
        ELSE Result(FALSE, o.message, t, "_smart_type")

ExecuteTypeCountingFailures(t, plan, target, o) ==
    LET value == plan.value
        field_purpose == plan.field_purpose
        target_y == plan.target_y_position
        field_id == target
        field_key == create_field_key(field_id, field_purpose, target_y)
    IN  IF AlreadyFilled(t, field_id, field_purpose, target_y)
            THEN Result(TRUE, "Skipped (already filled)", t, "none")
        ELSE IF TooManyAttempts(t, field_id, field_purpose, target_y)
            THEN Result(TRUE, "Skipped (too many attempts)", t, "none")
        ELSE IF o.raises THEN Caught(t, "_smart_type")
        ELSE IF o.success
            THEN Result(TRUE, o.message,
                        mark_filled(t, field_id, field_purpose, value, target_y),
                        "_smart_type")
        ELSE Result(FALSE, o.message,
                    [t EXCEPT !.field_attempts = Put(@, field_key, Get(@, field_key, 0) + 1)],
                    "_smart_type")

\* the type branch
ExecuteType(t, plan, target, o) ==
    LET value == plan.value
        field_purpose == plan.field_purpose
        target_y == plan.target_y_position
        field_id == target
    IN  IF AlreadyFilled(t, field_id, field_purpose, target_y)
            THEN Result(TRUE, "Skipped (already filled)", t, "none")
        ELSE IF TooManyAttempts(t, field_id, field_purpose, target_y)
            THEN Result(TRUE, "Skipped (too many attempts)", t, "none")
        ELSE IF o.raises THEN Caught(t, "_smart_type")
        ELSE IF o.success
            THEN Result(TRUE, o.message,
                        mark_filled(t, field_id, field_purpose, value, target_y),
                        "_smart_type")
        ELSE Result(FALSE, o.message, t, "_smart_type")

\* the press_key branch, with its own except clause
ExecutePressKey(t, plan, target, o) ==
    LET key == IF target # "" THEN target
               ELSE IF plan.value # "" THEN plan.value ELSE "Enter"
    IN  IF o.raises THEN Result(FALSE, "Key press error: driver exception", t, "none")
        ELSE Result(TRUE, "Pressed key: " \o key, t, "none")

\* action_plan.get('target', '').strip(): None has no strip()
StripRaises(target) == target = None

\* execute_action(action_plan) on tracker t, when the call it delegates to does o:
\* the (success, message) pair it returns or the exception it lets through, the
\* tracker it leaves, and the resolver it ran
execute_action(t, plan, o) ==
    IF StripRaises(plan.target) THEN Propagated(t) ELSE
    LET action == plan.action
        target == Strip(plan.target)
    IN  CASE action = "complete" -> Result(TRUE, "Task marked as complete", t, "none")
          [] action = "press_key" -> ExecutePressKey(t, plan, target, o)
          [] action \in {"click", "navigate"} -> ExecuteClick(t, target, o)
          [] action = "type_contenteditable" -> ExecuteTypeContenteditable(t, plan, target, o)
          [] action = "type" -> ExecuteType(t, plan, target, o)
          [] action = "wait" ->
                IF o.raises THEN Caught(t, "none")
                ELSE Result(TRUE, "Waited " \o ToString(plan.wait_after) \o "ms", t, "none")
          [] OTHER -> Result(FALSE, "Unknown action: " \o action, t, "none")

\* the key a typing plan is tracked under
PlanKey(plan) ==
    create_field_key(Strip(plan.target), plan.field_purpose, plan.target_y_position)

\* One call of execute_action on the agent: the tracker, the page and the
\* record of the call after it.
ExecuteOn(plan) ==
    \E o \in Outcomes(plan, page_url, scenario.urls) :
        LET r == execute_action(field_tracker, plan, o)
            ran == r.resolver # "none"
        IN  /\ field_tracker' = r.tracker
            /\ call' = [op |-> "execute_action", plan |-> plan, success |-> r.success,
                        message |-> r.message, resolver |-> r.resolver,
                        reset |-> r.reset, raises |-> r.raises,
                        threw |-> (/\ ~r.raises
                                   /\ ran \/ plan.action \in {"press_key", "wait"}
                                   /\ o.raises)]
            /\ resolver_calls' =
                    IF r.reset THEN EmptyDict
                    ELSE IF r.resolver = "_smart_click" THEN resolver_calls
                    ELSE IF ran
                        THEN Put(resolver_calls, PlanKey(plan),
                                 Get(resolver_calls, PlanKey(plan), 0) + 1)
                    ELSE resolver_calls
            /\ page_url' = IF ran \/ plan.action \in {"press_key", "wait"} THEN o.url ELSE page_url

\* the plans the executor harness is called with
ExecPlans ==
    {Plan("type", "name", "Roadmap Q1", "name", 0, FALSE, 5),
     Plan("type", "name", "Other", "name", 95, FALSE, 5),
     Plan("type", " name ", "Roadmap Q1", "name", 105, FALSE, 5),
     Plan("type_contenteditable", "Description", "Other", "body", 105, FALSE, 5),
     Plan("click", "New project", "", "other", 0, FALSE, 5),
     Plan("click", "Continue", "", "other", 0, FALSE, 5),
     Plan("click", "Issues", "", "other", 0, FALSE, 5),
     Plan("navigate", "New project", "", "other", 0, FALSE, 5),
     Plan("press_key", "", "", "other", 0, FALSE, 5),
     Plan("wait", "", "", "other", 0, FALSE, 5),
     Plan("wait", None, "", "other", 0, FALSE, 5),
     Plan("complete", "", "", "other", 0, TRUE, 9),
     Plan("scroll", "", "", "other", 0, FALSE, 5)}

ExecUrls == {"https://github.com", "https://github.com/new"}

InitExec ==
    /\ field_tracker = FreshTracker
    /\ call = [op |-> "init"]
    /\ resolver_calls = EmptyDict
    /\ scenario = [plans |-> ExecPlans, urls |-> ExecUrls]
    /\ pc = "idle"
    /\ task = ""
    /\ max_steps = 0
    /\ step = 0
    /\ page_url = "https://github.com"
    /\ workflow = [states |-> <<>>, total_steps |-> 0, completion_status |-> ""]
    /\ actions_taken = <<>>
    /\ consecutive_failures = 0
    /\ same_action_count = 0
    /\ last_action_signature = ""
    /\ initial_url = ""
    /\ creation_completed = FALSE
    /\ action_plan = [action |-> ""]
    /\ planned = <<>>
    /\ executed = <<>>
    /\ stop = "none"

ExecuteActionCall ==
    \E plan \in scenario.plans :
        /\ pc = "idle"
        /\ plan.target # None => Get(resolver_calls, PlanKey(plan), 0) < MaxResolverCalls
        /\ ExecuteOn(plan)
        /\ UNCHANGED <<scenario, pc, task, max_steps, step, workflow, actions_taken,
                       consecutive_failures, same_action_count, last_action_signature,
                       initial_url, creation_completed, action_plan, planned, executed,
                       stop>>

NextExec == ExecuteActionCall

SpecExec == InitExec /\ [][NextExec]_vars

----------------------------------------------------------------------------
(* The page the resolvers search *)

\* An element of the page is a record of the attributes it has: tag, text
\* (text_content), y (the top of its bounding box), and where present role,
\* type, id, name, placeholder, aria_label, label, editable (contenteditable
\* is 'true'), disabled, aria_disabled (aria-disabled is 'true'), hidden, and
\* detached (every pointer action on it raises).  A page is the sequence of its
\* elements in document order.
Attr(el, a) == IF a \in DOMAIN el THEN el[a] ELSE ""

Has(el, a) == a \in DOMAIN el

Flag(el, a) == a \in DOMAIN el /\ el[a]

\* el => el.disabled || el.getAttribute('aria-disabled') === 'true'
IsDisabled(el) == Flag(el, "disabled") \/ Flag(el, "aria_disabled")

\* elem.is_visible()
IsVisible(el) == ~Flag(el, "hidden")

\* locator.click(): without force it waits for the element to be enabled and
\* times out on a disabled one
ClickRaises(el, force) == Flag(el, "detached") \/ (~force /\ IsDisabled(el))

\* A selector is the f-string of the source with {} for the interpolated text,
\* and the characters interpolated.
Selector(css, arg) == [css |-> css, arg |-> arg]

\* the attributes of an element that hold text
TextAttrs ==
    {"text", "id", "name", "placeholder", "aria_placeholder", "aria_label", "data_testid",
     "label"}

\* the characters of the text attributes of el, as written and in lower case
Spelled(el) ==
    [a \in DOMAIN el \cap TextAttrs |-> [chars |-> Spell(el[a]), lower |-> Lower(el[a])]]

\* whether the element matches the selector css with arg interpolated; larg is
\* arg in lower case and sp the text attributes of the element
MatchesSpelled(css, arg, larg, el, sp) ==
    LET tag == el.tag
        text == sp.text.chars
        ltext == sp.text.lower
        HasText == Contains(larg, ltext)
        AttrIs(a) == Has(el, a) /\ sp[a].chars = arg
        AttrIsCI(a) == Has(el, a) /\ sp[a].lower = larg
        AttrHasCI(a) == Has(el, a) /\ arg # <<>> /\ Contains(larg, sp[a].lower)
    IN  CASE css = "button:has-text('{}'):not([disabled])" ->
                tag = "button" /\ HasText /\ ~Flag(el, "disabled")
          [] css = "[role='button']:has-text('{}'):not([aria-disabled='true'])" ->
                Attr(el, "role") = "button" /\ HasText /\ ~Flag(el, "aria_disabled")
          [] css = "text=/^{}$/i" -> ltext = larg
          [] css = ":text-is('{}')" -> text = arg
          [] css = "button:text-is('{}')" -> tag = "button" /\ text = arg
          [] css = "button >> text=/{}/i" -> tag = "button" /\ HasText
          [] css = "[type='submit']:has-text('{}')" ->
                Attr(el, "type") = "submit" /\ HasText
          [] css = "button:has-text('{}')" -> tag = "button" /\ HasText
          [] css = "a:has-text('{}')" -> tag = "a" /\ HasText
          [] css = "[role='button']:has-text('{}')" ->
                Attr(el, "role") = "button" /\ HasText
          [] css = "[role='link']:has-text('{}')" -> Attr(el, "role") = "link" /\ HasText
          [] css = "summary:has-text('{}')" -> tag = "summary" /\ HasText
          [] css = "text=/{}/i" -> HasText
          [] css = ":text('{}')" -> HasText
          [] css = "[placeholder='{}' i]" -> AttrIsCI("placeholder")
          [] css = "[placeholder*='{}' i]" -> AttrHasCI("placeholder")
          [] css = "[aria-placeholder*='{}' i]" -> AttrHasCI("aria_placeholder")
          [] css = "[aria-label='{}' i]" -> AttrIsCI("aria_label")
          [] css = "[aria-label*='{}' i]" -> AttrHasCI("aria_label")
          [] css = "[data-testid*='{}' i]" -> AttrHasCI("data_testid")
          [] css = "#{}" -> AttrIs("id")
          [] css = "input#{}" -> tag = "input" /\ AttrIs("id")
          [] css = "[id='{}']" -> AttrIs("id")
          [] css = "[name='{}']" -> AttrIs("name")
          [] css = "[name*='{}' i]" -> AttrHasCI("name")
          [] css = "label:has-text('{}') >> input" ->
                tag = "input" /\ Has(el, "label") /\ Contains(larg, sp.label.lower)
          [] css = ":text('{}') >> .. >> input" ->
                tag = "input" /\ Has(el, "label") /\ Contains(larg, sp.label.lower)
          [] css = "input[type='text']:visible" ->
                tag = "input" /\ Attr(el, "type") = "text" /\ IsVisible(el)
          [] css = "input:not([type='hidden']):not([type='submit']):visible" ->
                tag = "input" /\ Attr(el, "type") \notin {"hidden", "submit"} /\ IsVisible(el)
          [] css = "textarea:visible" -> tag = "textarea" /\ IsVisible(el)
          [] css = "[contenteditable='true'][placeholder*='{}' i]" ->
                Flag(el, "editable") /\ AttrHasCI("placeholder")
          [] css = "[contenteditable='true'][aria-label*='{}' i]" ->
                Flag(el, "editable") /\ AttrHasCI("aria_label")
          [] css = "[contenteditable='true']:has-text('{}')" ->
                Flag(el, "editable") /\ HasText
          [] css = "[contenteditable='true']:empty" ->
                Flag(el, "editable") /\ el.text = ""
          [] css = "[contenteditable='true']" -> Flag(el, "editable")
          [] css = "button, [role='button']" ->
                tag = "button" \/ Attr(el, "role") = "button"
          [] OTHER -> FALSE

\* whether the element matches the selector
Matches(sel, el) == MatchesSpelled(sel.css, sel.arg, LowerChars(sel.arg), el, Spelled(el))

\* the buttons a page may hold
Buttons ==
    {[tag |-> "button", text |-> "Create repository", y |-> 600],
     [tag |-> "button", text |-> "Create repository", y |-> 600, disabled |-> TRUE],
     [tag |-> "button", text |-> "Create a new repository", y |-> 40],
     [tag |-> "button", text |-> "Continue", y |-> 600],
     [tag |-> "button", text |-> "Continue", y |-> 600, detached |-> TRUE],
     [tag |-> "div", role |-> "button", text |-> "Continue", y |-> 600,
      aria_disabled |-> TRUE],
     [tag |-> "button", text |-> "Save and continue", y |-> 200],
     [tag |-> "button", text |-> "Submit and continue", y |-> 600]}

\* the fields a page may hold
Fields ==
    {[tag |-> "input", type |-> "text", text |-> "", name |-> "name", y |-> 100],
     [tag |-> "input", type |-> "text", text |-> "", name |-> "name", y |-> 500],
     [tag |-> "input", type |-> "text", text |-> "", name |-> "name", y |-> 500,
      disabled |-> TRUE],
     [tag |-> "input", type |-> "text", text |-> "", name |-> "name", y |-> 500,
      hidden |-> TRUE],
     [tag |-> "select", text |-> "", name |-> "name", y |-> 400],
     [tag |-> "textarea", text |-> "", aria_label |-> "Project name", y |-> 640],
     [tag |-> "div", text |-> "", editable |-> TRUE, aria_label |-> "Description", y |-> 300],
     [tag |-> "div", text |-> "", editable |-> TRUE, aria_label |-> "Description", y |-> 300,
      aria_disabled |-> TRUE]}

\* self.page.locator(selector): the positions of the matching elements, in
\* document order
Locate(page, sel) ==
    LET at == {k \in 1..Len(page) : Matches(sel, page[k])}
        Nth[n \in 0..Len(page)] ==
            IF n = 0 THEN <<>>
            ELSE IF n \in at THEN Append(Nth[n - 1], n) ELSE Nth[n - 1]
    IN  Nth[Len(page)]

\* words, after the character c that follows the character before
SplitNext(words, before, c) ==
    IF c = " " THEN words
    ELSE IF before # " " THEN [words EXCEPT ![Len(words)] = Append(@, c)]
    ELSE Append(words, <<c>>)

\* the element of a set of one element; a loop computes the state after a pass
\* as Only({Pass(before) : before \in {the state before it}})
Only(S) == CHOOSE x \in S : TRUE

\* cs.split(): the words of cs
Split(cs) ==
    LET Words[n \in 0..Len(cs)] ==
            IF n = 0 THEN <<>>
            ELSE Only({SplitNext(words, IF n > 1 THEN cs[n - 1] ELSE " ", cs[n]) :
                            words \in {Words[n - 1]}})
    IN  Words[Len(cs)]

----------------------------------------------------------------------------
(* UniversalUIAgent._smart_click *)

\* what a resolver returns, and the position of the element it clicked or wrote
\* to (0 when none)
Resolved(success, message, element) ==
    [success |-> success, message |-> message, element |-> element]

\* any(word in target.lower() for word in [...]) for every string of the model
IntermediateTable ==
    [s \in Strings |->
        \E word \in {"continue", "next", "proceed", "choose", "select", "skip", "add"} :
            Contains(Spell(word), Lower(s))]

\* is_intermediate
ClickIsIntermediate(target) == IntermediateTable[target]

\* any(phrase in target.lower() for phrase in [...]) for every string of the model
FinalSubmitTable ==
    [s \in Strings |->
        \E phrase \in {"create repository", "create project", "create issue", "submit",
                       "publish", "save"} :
            Contains(Spell(phrase), Lower(s))]

\* is_final_submit
ClickIsFinalSubmit(target) == FinalSubmitTable[target]

\* is_final_submit and ' ' in target
ClickIsMultiWordSubmit(target) ==
    ClickIsFinalSubmit(target) /\ Contains(<<" ">>, Spell(target))

\* the strategies list of _smart_click for the target spelled t with the given
\* keywords, is_intermediate and is_final_submit and ' ' in target
ClickStrategiesFor(t, keywords, intermediate, multi_word_submit, selector_type) ==
    LET S(css) == Selector(css, t)
        KeywordStrategies[n \in 0..Len(keywords)] ==
            IF n = 0 THEN <<>>
            ELSE KeywordStrategies[n - 1] \o
                    (IF Len(keywords[n]) > 3
                        THEN <<Selector("button:has-text('{}'):not([disabled])", keywords[n]),
                               Selector("[role='button']:has-text('{}'):not([aria-disabled='true'])",
                                        keywords[n])>>
                        ELSE <<>>)
    IN  CASE selector_type = "text" ->
                (IF multi_word_submit
                    THEN <<S("button:has-text('{}'):not([disabled])"),
                           S("[role='button']:has-text('{}'):not([aria-disabled='true'])"),
                           S("text=/^{}$/i"),
                           S(":text-is('{}')"),
                           S("button:text-is('{}')"),
                           S("button >> text=/{}/i"),
                           S("[type='submit']:has-text('{}')")>>
                    ELSE <<S("text=/^{}$/i"), S(":text-is('{}')")>>)
                \o (IF intermediate
                    THEN <<S("button:has-text('{}'):not([disabled])"),
                           S("[role='button']:has-text('{}'):not([aria-disabled='true'])")>>
                    ELSE <<>>)
                \o <<S("button:has-text('{}')"),
                     S("a:has-text('{}')"),
                     S("[role='button']:has-text('{}')"),
                     S("[role='link']:has-text('{}')"),
                     S("summary:has-text('{}')")>>
                \o <<S("text=/{}/i"), S(":text('{}')")>>
                \o (IF ~multi_word_submit THEN KeywordStrategies[Len(keywords)] ELSE <<>>)
          [] selector_type = "placeholder" ->
                <<S("[placeholder='{}' i]"), S("[placeholder*='{}' i]")>>
          [] selector_type = "aria_label" ->
                <<S("[aria-label='{}' i]"), S("[aria-label*='{}' i]")>>
          [] selector_type = "id" -> <<S("#{}"), S("[id='{}']")>>
          [] selector_type = "name" -> <<S("[name='{}']"), S("[name*='{}' i]")>>
          [] OTHER -> <<>>

\* the strategies list of _smart_click
ClickStrategies(target, selector_type) ==
    ClickStrategiesFor(Spell(target), Split(Lower(target)), ClickIsIntermediate(target),
                       ClickIsMultiWordSubmit(target), selector_type)

\* any(word in button_text.lower() for word in [...]) for every string of the
\* model
IntermediateVetoTable ==
    [s \in Strings |->
        \E word \in {"create repository", "create project", "create issue", "submit"} :
            Contains(Spell(word), Lower(s))]

\* the intermediate veto: the candidate's text holds a final-submit phrase
VetoedAsFinalSubmit(el) == el.text # "" /\ IntermediateVetoTable[el.text]

\* the final-submit veto: the candidate's text does not hold the target
VetoedAsOtherButton(target, el) ==
    el.text # "" /\ ~Contains(Lower(target), Lower(el.text))

\* The strategy loop on the candidate el at position k of the page: k when it is
\* clicked, 0 when the pass ends in continue or in an exception.
ClickCandidate(target, intermediate, multi_word_submit, el, k) ==
    IF ~IsVisible(el) THEN 0
    ELSE IF IsDisabled(el) THEN 0
    ELSE IF intermediate /\ VetoedAsFinalSubmit(el) THEN 0
    ELSE IF multi_word_submit /\ VetoedAsOtherButton(target, el) THEN 0
    ELSE IF ClickRaises(el, FALSE) THEN 0
    ELSE k

\* the strategy loop on the matches of one strategy: only .first is tried
ClickFirst(page, target, intermediate, multi_word_submit, found) ==
    IF found = <<>> THEN 0
    ELSE ClickCandidate(target, intermediate, multi_word_submit, page[found[1]], found[1])

\* One pass of the strategy loop: the position of the element clicked, or 0
\* when the pass ends in continue, in an exception or in nothing.
ClickWith(page, target, strategy) ==
    ClickFirst(page, target, ClickIsIntermediate(target), ClickIsMultiWordSubmit(target),
               Locate(page, strategy))

\* the last resort among all_buttons for a final submit of the given words: the
\* first button that holds every word, is enabled and visible and takes the
\* click; 0 when none
LastResortAmong(page, multi_word_submit, words, all_buttons) ==
    LET Takes(btn, lowered) ==
            /\ btn.text # ""
            /\ \A n \in 1..Len(words) : Contains(LowerChars(words[n]), lowered)
            /\ ~IsDisabled(btn)
            /\ IsVisible(btn)
            /\ ~ClickRaises(btn, FALSE)
        taking == {n \in 1..Len(all_buttons) :
                        Takes(page[all_buttons[n]], Lower(page[all_buttons[n]].text))}
    IN  IF multi_word_submit /\ Len(words) = 2 /\ taking # {}
            THEN all_buttons[CHOOSE n \in taking : \A m \in taking : n <= m]
            ELSE 0

\* The last resort for a final submit of two words.
LastResort(page, target) ==
    LastResortAmong(page, ClickIsMultiWordSubmit(target), Split(Spell(target)),
                    Locate(page, Selector("button, [role='button']", <<>>)))

\* the selector_type values a plan may carry
SelectorTypes == {"text", "placeholder", "aria_label", "id", "name"}

\* the strategies list of _smart_click for every string of the model
ClickStrategiesTable ==
    [target \in Strings |->
        [selector_type \in SelectorTypes |-> ClickStrategies(target, selector_type)]]

\* what every pass of the strategy loop would click
ClickPasses(page, target, strategies) ==
    [i \in 1..Len(strategies) |-> ClickWith(page, target, strategies[i])]

\* what _smart_click returns when the passes of its strategy loop click `passes`
\* and its last resort clicks `last`: the first pass that clicks returns
ClickResult(target, passes, last) ==
    LET clicking == {i \in DOMAIN passes : passes[i] # 0}
    IN  IF clicking # {}
            THEN LET i == CHOOSE i \in clicking : \A j \in clicking : i <= j
                 IN  Resolved(TRUE, "Clicked using strategy " \o ToString(i), passes[i])
        ELSE IF last # 0 THEN Resolved(TRUE, "Clicked using last resort method", last)
        ELSE Resolved(FALSE, "Could not click: " \o target, 0)

_smart_click(page, target, selector_type) ==
    ClickResult(target,
                ClickPasses(page, target, ClickStrategiesTable[target][selector_type]),
                LastResort(page, target))

----------------------------------------------------------------------------
(* UniversalUIAgent._smart_type *)

\* float('inf')
Infinity == 1000000

\* best_match, best_distance and best_strategy_used before the search; seen
\* collects the candidates whose distance was computed
NoMatch == [match |-> 0, distance |-> Infinity, strategy_used |-> 0, seen |-> {}]

DistanceSigned(elem_y, target_y) == elem_y - target_y

\* abs(elem_y - target_y)
Distance(elem_y, target_y) ==
    IF elem_y >= target_y THEN elem_y - target_y ELSE target_y - elem_y

MaxDistanceWide(i) == 150

\* max_distance = 150 if i > 6 else 80
MaxDistance(i) == IF i > 6 THEN 150 ELSE 80

\* the strategies list of _smart_type for the target spelled t
TypeStrategiesFor(t, selector_type, target_y) ==
    LET S(css) == Selector(css, t)
    IN  (IF t # <<>> /\ ~Contains(<<" ">>, t) /\ Len(t) > 5
            THEN <<S("#{}"), S("input#{}"), S("[id='{}']")>> ELSE <<>>)
        \o (IF t # <<>> THEN <<S("[name='{}']"), S("[name*='{}' i]")>> ELSE <<>>)
        \o (IF selector_type = "placeholder" \/ t # <<>>
            THEN <<S("[placeholder='{}' i]"), S("[placeholder*='{}' i]"),
                   S("[aria-placeholder*='{}' i]")>>
            ELSE <<>>)
        \o (IF selector_type = "aria_label" \/ t # <<>>
            THEN <<S("[aria-label='{}' i]"), S("[aria-label*='{}' i]")>> ELSE <<>>)
        \o (IF t # <<>> THEN <<S("[data-testid*='{}' i]")>> ELSE <<>>)
        \o (IF t # <<>> /\ Len(Split(t)) <= 3
            THEN <<S("label:has-text('{}') >> input"), S(":text('{}') >> .. >> input")>>
            ELSE <<>>)
        \o (IF target_y > 0
            THEN <<S("input[type='text']:visible"),
                   S("input:not([type='hidden']):not([type='submit']):visible"),
                   S("textarea:visible")>>
            ELSE <<>>)
        \o <<S("[contenteditable='true']")>>

\* the strategies list of _smart_type
TypeStrategies(target, selector_type, target_y) ==
    TypeStrategiesFor(Spell(target), selector_type, target_y)

\* One pass of the loop over the matches of strategy i when target_y > 0, on the
\* match at position k of the page: a visible candidate closer than the limit
\* and than the best so far becomes the best, and one closer than `perfect`
\* ends the loop.
ScanPass(prev, page, k, i, target_y, limit, perfect) ==
    LET elem == page[k]
        distance == Distance(elem.y, target_y)
        seen == prev.best.seen \cup
                    {[element |-> k, strategy |-> i, distance |-> distance]}
    IN  IF prev.done THEN prev
        ELSE IF ~IsVisible(elem) THEN prev
        ELSE IF distance < limit /\ distance < prev.best.distance
            THEN [best |-> [match |-> k, distance |-> distance, strategy_used |-> i,
                            seen |-> seen],
                  done |-> distance < perfect]
        ELSE [prev EXCEPT !.best.seen = seen]

\* the loop over the first five matches of strategy i when target_y > 0
ScanByPosition(page, found, i, target_y, limit, perfect, best) ==
    LET m == IF Len(found) < 5 THEN Len(found) ELSE 5
        Scan[n \in 0..m] ==
            IF n = 0 THEN [best |-> best, done |-> FALSE]
            ELSE Only({ScanPass(prev, page, found[n], i, target_y, limit, perfect) :
                            prev \in {Scan[n - 1]}})
    IN  Scan[m].best

\* The loop over the first two matches of strategy i when target_y is 0: the
\* first visible one becomes the best.
ScanFirstVisible(page, found, i, best) ==
    LET m == IF Len(found) < 2 THEN Len(found) ELSE 2
        visible == {n \in 1..m : IsVisible(page[found[n]])}
    IN  IF visible = {} THEN best
        ELSE [best EXCEPT !.match = found[CHOOSE n \in visible : \A k \in visible : n <= k],
                          !.strategy_used = i]

\* one pass of the strategy loop of _smart_type, on strategy i
TypePass(prev, page, strategies, i, target_y) ==
    IF prev.done THEN prev
    ELSE Only({IF found = <<>> THEN prev
               ELSE IF target_y > 0
                   THEN Only({[best |-> best,
                               done |-> /\ best.match # 0
                                        /\ best.strategy_used <= 6
                                        /\ best.distance < 50] :
                              best \in {ScanByPosition(page, found, i, target_y,
                                                       MaxDistance(i), 20, prev.best)}})
               ELSE Only({[best |-> best, done |-> best.match # 0 /\ i <= 6] :
                          best \in {ScanFirstVisible(page, found, i, prev.best)}}) :
               found \in {Locate(page, strategies[i])}})

\* the strategy loop of _smart_type
TypeSearch(page, strategies, target_y) ==
    LET Search[i \in 0..Len(strategies)] ==
            IF i = 0 THEN [best |-> NoMatch, done |-> FALSE]
            ELSE Only({TypePass(prev, page, strategies, i, target_y) :
                            prev \in {Search[i - 1]}})
    IN  Search[Len(strategies)].best

\* The result of a resolver that found `best`, with the candidates it measured.
Written(success, message, best) ==
    [success |-> success, message |-> message,
     element |-> IF success THEN best.match ELSE 0, best |-> best]

\* the three ways of writing, in the order of the code: fill(), select-all and
\* keyboard.type(), press_sequentially()
Techniques == <<"fill", "keyboard", "press_sequentially">>

\* What the driver can do to the three techniques on the element el: the set of
\* those that raise.  fill() always raises on a disabled element.
WriteOutcomes(el) ==
    {raising \in SUBSET {"fill", "keyboard", "press_sequentially"} :
        IsDisabled(el) => "fill" \in raising}

AttemptedAll(raising) == Techniques

\* the techniques tried when those of `raising` raise: each one only if
\* success is still False
Attempted(raising) ==
    LET completing == {n \in 1..Len(Techniques) : Techniques[n] \notin raising}
    IN  IF completing = {} THEN Techniques
        ELSE SubSeq(Techniques, 1, CHOOSE n \in completing : \A m \in completing : n <= m)

\* what _smart_type returns when its strategy loop ends with `best` and the
\* techniques it tried were `attempted`
TypeResult(page, target, best, attempted, raising) ==
    IF best.match = 0 THEN Written(FALSE, "Could not find field: " \o target, best)
    ELSE IF ClickRaises(page[best.match], TRUE)
        THEN Written(FALSE, "Typing error: driver exception", best)
    ELSE IF \E n \in 1..Len(attempted) : attempted[n] \notin raising
        THEN Written(TRUE, "Typed using strategy " \o ToString(best.strategy_used), best)
    ELSE Written(FALSE, "All typing methods failed", best)

_smart_type(page, target, value, selector_type, target_y, raising) ==
    TypeResult(page, target,
               TypeSearch(page, TypeStrategies(target, selector_type, target_y), target_y),
               Attempted(raising), raising)

----------------------------------------------------------------------------
(* UniversalUIAgent._type_contenteditable *)

\* the strategies list of _type_contenteditable for the target spelled t
ContenteditableStrategiesFor(t) ==
    LET S(css) == Selector(css, t)
    IN  (IF t # <<>>
            THEN <<S("[contenteditable='true'][placeholder*='{}' i]"),
                   S("[contenteditable='true'][aria-label*='{}' i]"),
                   S("[contenteditable='true']:has-text('{}')")>>
            ELSE <<>>)
        \o <<S("[contenteditable='true']:empty"), S("[contenteditable='true']")>>

\* the strategies list of _type_contenteditable
ContenteditableStrategies(target) == ContenteditableStrategiesFor(Spell(target))

\* one pass of the strategy loop of _type_contenteditable, on strategy i
ContenteditablePass(prev, page, strategies, i, target_y) ==
    IF prev.done THEN prev
    ELSE Only({IF found = <<>> THEN prev
               ELSE IF target_y > 0
                   THEN Only({[best |-> best,
                               done |-> /\ best.match # 0
                                        /\ best.strategy_used < Len(strategies) - 1] :
                              best \in {ScanByPosition(page, found, i, target_y, 100, 15,
                                                       prev.best)}})
               ELSE Only({[best |-> best, done |-> best.match # 0] :
                          best \in {IF i < Len(strategies) - 1
                                        THEN ScanFirstVisible(page, found, i, prev.best)
                                        ELSE prev.best}}) :
               found \in {Locate(page, strategies[i])}})

\* the strategy loop of _type_contenteditable
ContenteditableSearch(page, strategies, target_y) ==
    LET Search[i \in 0..Len(strategies)] ==
            IF i = 0 THEN [best |-> NoMatch, done |-> FALSE]
            ELSE Only({ContenteditablePass(prev, page, strategies, i, target_y) :
                            prev \in {Search[i - 1]}})
    IN  Search[Len(strategies)].best

\* what _type_contenteditable returns when its strategy loop ends with `best`
ContenteditableResult(page, target, best) ==
    IF best.match # 0 /\ ~ClickRaises(page[best.match], FALSE)
        THEN Written(TRUE, "Typed into contenteditable using strategy "
                                \o ToString(best.strategy_used), best)
        ELSE Written(FALSE, "Could not type into contenteditable: " \o target, best)

_type_contenteditable(page, target, value, target_y) ==
    ContenteditableResult(page, target,
                          ContenteditableSearch(page, ContenteditableStrategies(target),
                                                target_y))

----------------------------------------------------------------------------
(* The resolvers called on a page *)

\* the longest page searched
MaxElements == 3

\* the sequences of at most n distinct elements of pool
PagesOf(pool, n) ==
    LET Grow[k \in 0..n] ==
            IF k = 0 THEN {<<>>}
            ELSE Grow[k - 1] \cup
                    {Append(p, el) : p \in {q \in Grow[k - 1] : Len(q) = k - 1},
                                     el \in pool}
    IN  {p \in Grow[n] : \A a, b \in 1..Len(p) : a # b => p[a] # p[b]}

Pages == PagesOf(Buttons, MaxElements) \cup PagesOf(Fields, MaxElements)

ClickTargets == {"Create repository", "Continue", "Save"}

TypeTargets == {"name"}

ContenteditableTargets == {"Description", ""}

\* the selector_type and target_y arguments of the calls
ClickSelectorTypes == {"text", "aria_label"}

\* the target_y_position of the click plan, which is not an argument of the call
ClickTargetYs == {0, 610}

TypeTargetYs == {0, 510}

ContenteditableTargetYs == {0, 310}

\* what each resolver returns on each page, worked out once
SmartClickTable ==
    [page \in Pages |->
        [target \in ClickTargets |->
            [selector_type \in ClickSelectorTypes |->
                _smart_click(page, target, selector_type)]]]

\* what the strategy loop of _smart_type ends with on each page, worked out once
SmartTypeSearches ==
    [page \in Pages |->
        [target \in TypeTargets |->
            [target_y \in TypeTargetYs |->
                TypeSearch(page, TypeStrategies(target, "placeholder", target_y),
                           target_y)]]]

\* _smart_type(page, target, "Roadmap Q1", "placeholder", target_y, raising)
SmartTypeTable ==
    [page \in Pages |->
        [target \in TypeTargets |->
            [target_y \in TypeTargetYs |->
                [raising \in SUBSET {"fill", "keyboard", "press_sequentially"} |->
                    TypeResult(page, target, SmartTypeSearches[page][target][target_y],
                               Attempted(raising), raising)]]]]

TypeContenteditableTable ==
    [page \in Pages |->
        [target \in ContenteditableTargets |->
            [target_y \in ContenteditableTargetYs |->
                _type_contenteditable(page, target, "Roadmap Q1", target_y)]]]

InitResolver ==
    /\ field_tracker = FreshTracker
    /\ call = [op |-> "init"]
    /\ resolver_calls = EmptyDict
    /\ scenario \in {[page |-> page] : page \in Pages}
    /\ pc = "idle"
    /\ task = ""
    /\ max_steps = 0
    /\ step = 0
    /\ page_url = "https://github.com"
    /\ workflow = [states |-> <<>>, total_steps |-> 0, completion_status |-> ""]
    /\ actions_taken = <<>>
    /\ consecutive_failures = 0
    /\ same_action_count = 0
    /\ last_action_signature = ""
    /\ initial_url = ""
    /\ creation_completed = FALSE
    /\ action_plan = [action |-> ""]
    /\ planned = <<>>
    /\ executed = <<>>
    /\ stop = "none"

\* The model of a call leaves the page as it was drawn, so a second call
\* would start from the page of the first: a behaviour makes one call, and
\* every outcome of every call is a successor of the initial state.

\* await self._smart_click(target, selector_type)
SmartClickCall ==
    /\ call.op = "init"
    /\ \E target \in ClickTargets, selector_type \in ClickSelectorTypes,
       target_y_position \in ClickTargetYs :
        LET r == SmartClickTable[scenario.page][target][selector_type]
        IN  /\ call' = [op |-> "_smart_click", target |-> target,
                        selector_type |-> selector_type, target_y |-> target_y_position,
                        success |-> r.success, message |-> r.message,
                        element |-> r.element, best |-> NoMatch]
            /\ UNCHANGED <<field_tracker, resolver_calls, taskVars>>

\* await self._smart_type(target, value, selector_type, target_y)
SmartTypeCall ==
    /\ call.op = "init"
    /\ \E target \in TypeTargets, target_y \in TypeTargetYs,
       raising \in SUBSET {"fill", "keyboard", "press_sequentially"} :
        LET r == SmartTypeTable[scenario.page][target][target_y][raising]
            choice == SmartTypeSearches[scenario.page][target][target_y].match
        IN  /\ choice # 0 => raising \in WriteOutcomes(scenario.page[choice])
            /\ choice = 0 => raising = {}
            /\ call' = [op |-> "_smart_type", target |-> target,
                        selector_type |-> "placeholder", target_y |-> target_y,
                        success |-> r.success, message |-> r.message,
                        element |-> r.element, best |-> r.best, raising |-> raising,
                        attempted |-> IF choice = 0 \/ ClickRaises(scenario.page[choice], TRUE)
                                          THEN <<>> ELSE Attempted(raising)]
            /\ UNCHANGED <<field_tracker, resolver_calls, taskVars>>

\* await self._type_contenteditable(target, value, target_y)
TypeContenteditableCall ==
    /\ call.op = "init"
    /\ \E target \in ContenteditableTargets, target_y \in ContenteditableTargetYs :
        LET r == TypeContenteditableTable[scenario.page][target][target_y]
        IN  /\ call' = [op |-> "_type_contenteditable", target |-> target,
                        selector_type |-> "", target_y |-> target_y,
                        success |-> r.success, message |-> r.message,
                        element |-> r.element, best |-> r.best]
            /\ UNCHANGED <<field_tracker, resolver_calls, taskVars>>

NextResolver ==
    \/ SmartClickCall
    \/ SmartTypeCall
    \/ TypeContenteditableCall

SpecResolver == InitResolver /\ [][NextResolver]_vars

----------------------------------------------------------------------------
(* UniversalUIAgent.analyze_and_plan *)

\* What self.client.chat.completions.create(...) can do: raise, or return a
\* message whose content is None or a text.
Response(raises, content) == [raises |-> raises, content |-> content]

\* the string with these characters
Unspell(cs) == CHOOSE t \in Strings : Spell(t) = cs

\* cs.find(c): the index of the first c, counted from 0, or -1
Find(c, cs) ==
    LET at == {i \in 1..Len(cs) : cs[i] = c}
    IN  IF at = {} THEN -1 ELSE (CHOOSE i \in at : \A j \in at : i <= j) - 1

\* cs.rfind(c): the index of the last c, counted from 0, or -1
RFind(c, cs) ==
    LET at == {i \in 1..Len(cs) : cs[i] = c}
    IN  IF at = {} THEN -1 ELSE (CHOOSE i \in at : \A j \in at : j <= i) - 1

\* json.loads on the texts the planner answers with: the dict, with the keys
\* the text has (confidence in tenths), or a JSONDecodeError
JsonLoads(json_str) ==
    CASE json_str = "{\"action\":\"click\",\"target\":\"New project\"}" ->
            [ok |-> TRUE, value |-> [action |-> "click", target |-> "New project"]]
      [] json_str = "{\"action\":\"type\",\"target\":\"name\",\"value\":\"Roadmap Q1\",\"field_purpose\":\"name\"}" ->
            [ok |-> TRUE, value |-> [action |-> "type", target |-> "name",
                                     value |-> "Roadmap Q1", field_purpose |-> "name"]]
      [] json_str = "{\"action\":\"type\",\"target\":\"name\",\"value\":\"Other\",\"field_purpose\":\"name\"}" ->
            [ok |-> TRUE, value |-> [action |-> "type", target |-> "name",
                                     value |-> "Other", field_purpose |-> "name"]]
      [] json_str = "{\"action\":\"type\",\"target\":\"name\",\"value\":\"Roadmap Q1\",\"field_purpose\":\"name\",\"target_y_position\":95}" ->
            [ok |-> TRUE, value |-> [action |-> "type", target |-> "name",
                                     value |-> "Roadmap Q1", field_purpose |-> "name",
                                     target_y_position |-> 95]]
      [] json_str = "{\"action\":\"click\",\"target\":\"Create repository\"}" ->
            [ok |-> TRUE, value |-> [action |-> "click", target |-> "Create repository"]]
      [] json_str = "{\"action\":\"click\",\"target\":\"Continue\"}" ->
            [ok |-> TRUE, value |-> [action |-> "click", target |-> "Continue"]]
      [] json_str = "{\"action\":\"click\",\"target\":\"Continue\",\"is_complete\":true,\"confidence\":0.9}" ->
            [ok |-> TRUE, value |-> [action |-> "click", target |-> "Continue",
                                     is_complete |-> TRUE, confidence |-> 9]]
      [] json_str = "{\"action\":\"scroll\",\"is_complete\":true,\"confidence\":0.7}" ->
            [ok |-> TRUE, value |-> [action |-> "scroll", is_complete |-> TRUE,
                                     confidence |-> 7]]
      [] json_str = "{\"action\":\"wait\",\"confidence\":0.3}" ->
            [ok |-> TRUE, value |-> [action |-> "wait", confidence |-> 3]]
      [] json_str = "{\"action\":\"click\",\"target\":\"Create project\"}" ->
            [ok |-> TRUE, value |-> [action |-> "click", target |-> "Create project"]]
      [] json_str = "{\"action\":\"click\",\"target\":\"Create issue\"}" ->
            [ok |-> TRUE, value |-> [action |-> "click", target |-> "Create issue"]]
      [] json_str = "{\"action\":\"wait\",\"target\":null}" ->
            [ok |-> TRUE, value |-> [action |-> "wait", target |-> None]]
      [] json_str = "{\"is_complete\":true,\"confidence\":0.9}" ->
            [ok |-> TRUE, value |-> [is_complete |-> TRUE, confidence |-> 9]]
      [] OTHER -> [ok |-> FALSE]

\* dict.setdefault
SetDefault(d, k, v) == IF k \in DOMAIN d THEN d ELSE Put(d, k, v)

UnparsedPlanConfident ==
    [action |-> "wait", reasoning |-> "Could not parse LLM response", is_complete |-> TRUE,
     wait_after |-> 2000, confidence |-> 9, target_y_position |-> 0]

\* the plan returned when the answer holds no JSON object
UnparsedPlan ==
    [action |-> "wait", reasoning |-> "Could not parse LLM response", is_complete |-> FALSE,
     wait_after |-> 2000, confidence |-> 3, target_y_position |-> 0]

\* the plan returned by the except clause
ErrorPlan ==
    [action |-> "wait", reasoning |-> "Error: exception", is_complete |-> FALSE,
     wait_after |-> 2000, confidence |-> 1, target_y_position |-> 0]

\* the try block of analyze_and_plan on the planner's answer
analyze_and_plan(response) ==
    IF response.raises \/ response.content = None THEN ErrorPlan
    ELSE LET response_text == StripChars(Spell(response.content))
             json_start == Find("{", response_text)
             json_end == RFind("}", response_text) + 1
         IN  IF json_start # -1 /\ json_end > json_start
                 THEN LET json_str == Unspell(SubSeq(response_text, json_start + 1, json_end))
                          loaded == JsonLoads(json_str)
                      IN  IF ~loaded.ok THEN ErrorPlan
                          ELSE SetDefault(SetDefault(SetDefault(SetDefault(
                                    SetDefault(loaded.value, "action", "wait"),
                                    "wait_after", 1500), "confidence", 5),
                                    "is_complete", FALSE), "target_y_position", 0)
                 ELSE UnparsedPlan

\* the plan as execute_task and execute_action read it with .get()
ReadPlan(d) ==
    [Plan(d.action, Get(d, "target", ""), Get(d, "value", ""),
          Get(d, "field_purpose", "other"), d.target_y_position, d.is_complete,
          d.confidence)
        EXCEPT !.wait_after = d.wait_after]

\* a planner answer that is this JSON text
Answer(content) == Response(FALSE, content)

----------------------------------------------------------------------------
(* UniversalUIAgent.execute_task *)

\* the largest max_steps execute_task is called with
MaxSteps == 5

\* f"{action_plan['action']}|{action_plan.get('target', '')}|{action_plan.get('value', '')}"
ActionSignature(plan) == plan.action \o "|" \o plan.target \o "|" \o plan.value

GuardTripsAtFour(count) == count >= 4

GuardTripsAtOne(count) == count >= 1

\* if same_action_count >= 3
GuardTrips(count) == count >= 3

\* the orchestrator's final-submit test on action_plan.get('target', '').lower()
IsFinalSubmit(target) ==
    \E phrase \in {"create repository", "create project", "create issue",
                   "submit new issue", "create pull request", "publish"} :
        Contains(Spell(phrase), Lower(target))

\* url_indicates_success of the early completion check
UrlIndicatesSuccess(task_text, current_url, start_url) ==
    LET task_lower == Lower(task_text)
        url == Spell(current_url)
    IN  IF Contains(Spell("project"), task_lower)
            THEN /\ Contains(Spell("/projects/"), url)
                 /\ ~Contains(Spell("/new"), url)
                 /\ current_url # start_url
        ELSE IF Contains(Spell("repository"), task_lower) \/ Contains(Spell("repo"), task_lower)
            THEN CountChar("/", url) >= 4 /\ ~Contains(Spell("/new"), url)
        ELSE IF Contains(Spell("issue"), task_lower)
            THEN Contains(Spell("/issues/"), url) /\ CountChar("/", url) >= 5
        ELSE FALSE

EarlyCompletionIgnored(latch, task_text, current_url, start_url) == FALSE

\* if creation_completed: ... if url_indicates_success
EarlyCompletion(latch, task_text, current_url, start_url) ==
    latch /\ UrlIndicatesSuccess(task_text, current_url, start_url)

SelfReportsCompletionAtThreshold(plan) == plan.is_complete /\ plan.confidence >= 7

\* if action_plan.get('is_complete') and action_plan.get('confidence', 0) > 0.7
SelfReportsCompletion(plan) == plan.is_complete /\ plan.confidence > 7

TooManyFailuresAtFive(failures) == failures >= 5

TooManyFailuresNever(failures) == FALSE

\* if consecutive_failures >= 4
TooManyFailures(failures) == failures >= 4

FinalizedKeepingSteps(w, n) ==
    IF w.completion_status = "in_progress"
        THEN [w EXCEPT !.completion_status = "max_steps_reached"]
        ELSE w

FinalizedInProgress(w, n) == w

FinalizedOverwritingSteps(w, n) ==
    IF w.completion_status = "in_progress"
        THEN [w EXCEPT !.completion_status = "max_steps_reached", !.total_steps = n]
        ELSE [w EXCEPT !.total_steps = n]

\* if workflow.completion_status == "in_progress": ...
Finalized(w, n) ==
    IF w.completion_status = "in_progress"
        THEN [w EXCEPT !.completion_status = "max_steps_reached", !.total_steps = n]
        ELSE w

FollowingSkippingWait(stage) ==
    CASE stage = "snapshot" -> "plan"
      [] stage = "plan"     -> "execute"
      [] stage = "execute"  -> "snapshot"
      [] stage = "wait"     -> "snapshot"

FollowingPlanningAgain(stage) ==
    CASE stage = "snapshot" -> "plan"
      [] stage = "plan"     -> "plan"
      [] stage = "execute"  -> "wait"
      [] stage = "wait"     -> "snapshot"

\* the order of the awaited calls of the loop body: the snapshot calls, then
\* analyze_and_plan, then execute_action, then wait_for_timeout, then the
\* snapshot calls of the next iteration
Following(stage) ==
    CASE stage = "snapshot" -> "plan"
      [] stage = "plan"     -> "execute"
      [] stage = "execute"  -> "wait"
      [] stage = "wait"     -> "snapshot"

SameActionCountKept(action_signature, last_signature, count) ==
    IF action_signature = last_signature THEN count + 1 ELSE count

\* if action_signature == last_action_signature: same_action_count += 1
\* else: same_action_count = 0
SameActionCount(action_signature, last_signature, count) ==
    IF action_signature = last_signature THEN count + 1 ELSE 0

ConsecutiveFailuresKept(success, failures) ==
    IF success THEN failures ELSE failures + 1

\* if success: consecutive_failures = 0, else: consecutive_failures += 1
ConsecutiveFailures(success, failures) ==
    IF success THEN 0 ELSE failures + 1

StopAfterActionFailuresFirst(plan, failures) ==
    IF TooManyFailures(failures) THEN "failure_budget"
    ELSE IF SelfReportsCompletion(plan) THEN "self_report"
    ELSE "none"

\* the two stop tests after the post-action wait, in the order of the code
StopAfterAction(plan, failures) ==
    IF SelfReportsCompletion(plan) THEN "self_report"
    ELSE IF TooManyFailures(failures) THEN "failure_budget"
    ELSE "none"

StatesReplaced(states, state) == <<state>>

\* workflow.states.append(state)
StatesAppended(states, state) == Append(states, state)

\* action_summary; the check mark and the cross are spelled ok and x
ActionSummary(n, plan, success) ==
    "Step " \o ToString(n) \o ": " \o plan.action
        \o (IF plan.target \notin {"", None} THEN " - " \o Prefix(plan.target, 50) ELSE "")
        \o " -> " \o (IF success THEN "ok" ELSE "x")

\* the UIState appended before the action runs
UIState(n, url, taken) == [step_number |-> n, url |-> url, actions_taken |-> taken]

\* What one run can meet: the task, the page the browser starts on, the plans
\* the planner answers with and the pages the site can navigate to.
Scenarios ==
    {[task      |-> "create project",
      start_url |-> "https://github.com",
      responses |-> {Answer("{\"action\":\"click\",\"target\":\"New project\"}"),
                     Answer("{\"action\":\"type\",\"target\":\"name\",\"value\":\"Roadmap Q1\",\"field_purpose\":\"name\"}"),
                     Answer("{\"action\":\"type\",\"target\":\"name\",\"value\":\"Other\",\"field_purpose\":\"name\"}")},
      urls      |-> {}],
     [task      |-> "create project",
      start_url |-> "https://github.com/new",
      responses |-> {Answer("{\"action\":\"click\",\"target\":\"New project\"}"),
                     Answer("{\"action\":\"type\",\"target\":\"name\",\"value\":\"Roadmap Q1\",\"field_purpose\":\"name\"}"),
                     Answer("{\"action\":\"type\",\"target\":\"name\",\"value\":\"Roadmap Q1\",\"field_purpose\":\"name\",\"target_y_position\":95}")},
      urls      |-> {}],
     [task      |-> "Create a new repository named my-test-repo",
      start_url |-> "https://github.com/new",
      responses |-> {Answer("{\"action\":\"type\",\"target\":\"name\",\"value\":\"Roadmap Q1\",\"field_purpose\":\"name\"}"),
                     Answer("{\"action\":\"click\",\"target\":\"Create repository\"}")},
      urls      |-> {"https://github.com/user/my-test-repo"}],
     [task      |-> "open settings",
      start_url |-> "https://github.com",
      responses |-> {Answer("{\"action\":\"click\",\"target\":\"Continue\"}"),
                     Answer("{\"action\":\"click\",\"target\":\"Continue\",\"is_complete\":true,\"confidence\":0.9}"),
                     Answer("{\"action\":\"scroll\",\"is_complete\":true,\"confidence\":0.7}"),
                     Answer("{\"action\":\"wait\",\"confidence\":0.3}")},
      urls      |-> {}],
     [task      |-> "create project",
      start_url |-> "https://github.com/users/user/projects/new",
      responses |-> {Answer("{\"action\":\"click\",\"target\":\"Create project\"}"),
                     Answer("{\"action\":\"wait\",\"confidence\":0.3}")},
      urls      |-> {"https://github.com/users/user/projects/1"}],
     [task      |-> "create issue",
      start_url |-> "https://github.com/user/my-test-repo",
      responses |-> {Answer("{\"action\":\"click\",\"target\":\"Create issue\"}"),
                     Answer("{\"action\":\"wait\",\"confidence\":0.3}")},
      urls      |-> {"https://github.com/user/my-test-repo/issues/1"}],
     [task      |-> "open settings",
      start_url |-> "https://github.com/new",
      responses |-> {Response(TRUE, None),
                     Response(FALSE, None),
                     Answer("I cannot see the page"),
                     Answer("} then {"),
                     Answer("{\"action\":\"click\",\"target\":}"),
                     Answer("Next step: {\"action\":\"click\",\"target\":\"Continue\"} "),
                     Answer("{\"is_complete\":true,\"confidence\":0.9}"),
                     Answer("{\"action\":\"wait\",\"target\":null}")},
      urls      |-> {}]}

\* analyze_and_plan for every planner answer of the scenarios, worked out once
PlannerTable == [response \in UNION {sc.responses : sc \in Scenarios} |->
                    analyze_and_plan(response)]

Init ==
    /\ field_tracker = FreshTracker
    /\ call = [op |-> "init"]
    /\ resolver_calls = EmptyDict
    /\ scenario \in Scenarios
    /\ task = scenario.task
    /\ max_steps \in 0..MaxSteps
    /\ page_url = scenario.start_url
    /\ initial_url = page_url
    /\ workflow = [states |-> <<>>, total_steps |-> 0, completion_status |-> "in_progress"]
    /\ actions_taken = <<>>
    /\ consecutive_failures = 0
    /\ same_action_count = 0
    /\ last_action_signature = ""
    /\ creation_completed = FALSE
    /\ action_plan = [action |-> ""]
    /\ planned = <<>>
    /\ executed = <<>>
    /\ stop = IF max_steps >= 1 THEN "none" ELSE "loop_exhausted"
    /\ step = IF max_steps >= 1 THEN 1 ELSE 0
    /\ pc = IF max_steps >= 1 THEN "snapshot" ELSE "finalize"

\* the screenshot, the DOM snapshot and the early completion check of a step
Snapshot ==
    /\ pc = "snapshot"
    /\ LET current_url == page_url
       IN  IF EarlyCompletion(creation_completed, task, current_url, initial_url)
               THEN /\ workflow' = [workflow EXCEPT !.completion_status = "completed",
                                                    !.total_steps = step]
                    /\ pc' = "finalize"
                    /\ stop' = "early_completion"
               ELSE /\ pc' = Following("snapshot")
                    /\ UNCHANGED <<workflow, stop>>
    /\ UNCHANGED <<trackerVars, scenario, task, max_steps, step, page_url, actions_taken,
                   consecutive_failures, same_action_count, last_action_signature,
                   initial_url, creation_completed, action_plan, planned, executed>>

\* analyze_and_plan, the repetition guard and the UIState record of a step
PlanStep ==
    /\ pc = "plan"
    /\ \E response \in scenario.responses :
        LET answered == PlannerTable[response]
            plan == ReadPlan(answered)
            action_signature == ActionSignature(plan)
            count == SameActionCount(action_signature, last_action_signature,
                                     same_action_count)
        IN  /\ call' = [op |-> "analyze_and_plan", response |-> response,
                        plan |-> answered]
            /\ action_plan' = plan
            /\ planned' = Append(planned, plan)
            /\ same_action_count' = count
            /\ IF action_signature = last_action_signature /\ GuardTrips(count)
                   THEN /\ workflow' = [workflow EXCEPT
                                            !.completion_status = "failed_infinite_loop",
                                            !.total_steps = step]
                        /\ pc' = "finalize"
                        /\ stop' = "repetition_guard"
                        /\ UNCHANGED last_action_signature
                   ELSE /\ last_action_signature' = action_signature
                        /\ workflow' = [workflow EXCEPT !.states =
                                StatesAppended(@, UIState(step, page_url, actions_taken))]
                        /\ pc' = Following("plan")
                        /\ UNCHANGED stop
    /\ UNCHANGED <<field_tracker, resolver_calls, scenario, task, max_steps, step, page_url, actions_taken,
                   consecutive_failures, initial_url, creation_completed, executed>>

\* execute_action, the final-submit latch, the action summary and the failure count
Execute ==
    /\ pc = "execute"
    /\ ExecuteOn(action_plan)
    /\ IF call'.raises
           THEN /\ pc' = "raised"
                /\ UNCHANGED <<creation_completed, actions_taken, consecutive_failures,
                               executed>>
           ELSE /\ creation_completed' =
                        (creation_completed
                            \/ (call'.success /\ IsFinalSubmit(action_plan.target)))
                /\ actions_taken' =
                        Append(actions_taken, ActionSummary(step, action_plan, call'.success))
                /\ consecutive_failures' =
                        ConsecutiveFailures(call'.success, consecutive_failures)
                /\ executed' = Append(executed, [step |-> step, plan |-> action_plan,
                                                 success |-> call'.success,
                                                 message |-> call'.message,
                                                 resolver |-> call'.resolver])
                /\ pc' = Following("execute")
    /\ UNCHANGED <<scenario, task, max_steps, step, workflow, same_action_count,
                   last_action_signature, initial_url, action_plan, planned, stop>>

\* the post-action wait, the two stop tests that follow it and the loop header
WaitAndCheck ==
    /\ pc = "wait"
    /\ IF StopAfterAction(action_plan, consecutive_failures) = "self_report"
           THEN /\ workflow' = [workflow EXCEPT !.completion_status = "completed",
                                                !.total_steps = step]
                /\ pc' = "finalize"
                /\ stop' = "self_report"
                /\ UNCHANGED step
       ELSE IF StopAfterAction(action_plan, consecutive_failures) = "failure_budget"
           THEN /\ workflow' = [workflow EXCEPT
                                    !.completion_status = "failed_too_many_errors",
                                    !.total_steps = step]
                /\ pc' = "finalize"
                /\ stop' = "failure_budget"
                /\ UNCHANGED step
       ELSE IF step < max_steps
           THEN /\ step' = step + 1
                /\ pc' = Following("wait")
                /\ UNCHANGED <<workflow, stop>>
       ELSE /\ pc' = "finalize"
            /\ stop' = "loop_exhausted"
            /\ UNCHANGED <<step, workflow>>
    /\ UNCHANGED <<trackerVars, scenario, task, max_steps, page_url, actions_taken,
                   consecutive_failures, same_action_count, last_action_signature,
                   initial_url, creation_completed, action_plan, planned, executed>>

\* a driver call of the loop body that no try block encloses raises
DriverRaises ==
    /\ pc \in {"snapshot", "wait"}
    /\ pc' = "raised"
    /\ UNCHANGED <<trackerVars, scenario, task, max_steps, step, page_url, workflow,
                   actions_taken, consecutive_failures, same_action_count,
                   last_action_signature, initial_url, creation_completed, action_plan,
                   planned, executed, stop>>

\* the code after the loop: the default status, and the return
Finalize ==
    /\ pc = "finalize"
    /\ workflow' = Finalized(workflow, max_steps)
    /\ pc' = "returned"
    /\ UNCHANGED <<trackerVars, scenario, task, max_steps, step, page_url, actions_taken,
                   consecutive_failures, same_action_count, last_action_signature,
                   initial_url, creation_completed, action_plan, planned, executed, stop>>

Next ==
    \/ Snapshot
    \/ PlanStep
    \/ Execute
    \/ WaitAndCheck
    \/ DriverRaises
    \/ Finalize

Spec == Init /\ [][Next]_vars

----------------------------------------------------------------------------
(* Properties of execute_action *)

\* C8: execute_action for a type or type_contenteditable plan whose
\* (target, field_purpose, target_y) key is already filled returns
\* (True, 'Skipped (already filled)'), runs no resolver, leaves the page alone
\* and leaves filled_fields, field_attempts and filled_positions as they were.
C8_SkipFrame ==
    [][(/\ call'.op = "execute_action"
        /\ call'.plan.action \in {"type", "type_contenteditable"}
        /\ is_filled(field_tracker, Strip(call'.plan.target), call'.plan.field_purpose,
                     call'.plan.target_y_position))
       => (/\ call'.success
           /\ call'.message = "Skipped (already filled)"
           /\ call'.resolver = "none"
           /\ resolver_calls' = resolver_calls
           /\ page_url' = page_url
           /\ field_tracker'.filled_fields = field_tracker.filled_fields
           /\ field_tracker'.field_attempts = field_tracker.field_attempts
           /\ field_tracker'.filled_positions = field_tracker.filled_positions)]_vars

\* a type_contenteditable plan was skipped while two keys were filled
C8_Witness ==
    /\ call.op = "execute_action"
    /\ call.plan.action = "type_contenteditable"
    /\ call.message = "Skipped (already filled)"
    /\ Cardinality(DOMAIN field_tracker.filled_fields) >= 2

----------------------------------------------------------------------------
(* Properties of execute_task *)

TerminalStatuses ==
    {"completed", "failed_infinite_loop", "failed_too_many_errors", "max_steps_reached"}

\* the last k plans the planner returned have one signature
SameSignatureRun(k) ==
    /\ Len(planned) >= k
    /\ \A i \in (Len(planned) - k + 1)..Len(planned) :
            ActionSignature(planned[i]) = ActionSignature(planned[Len(planned)])

\* the last k execute_action calls of the run returned failure
FailureRun(k) ==
    /\ Len(executed) >= k
    /\ \A i \in (Len(executed) - k + 1)..Len(executed) : ~executed[i].success

C2_FourFailuresFail ==
    (FailureRun(4) /\ pc \notin {"wait", "raised"}) =>
        /\ pc \in {"finalize", "returned"}
        /\ workflow.completion_status = "failed_too_many_errors"
        /\ workflow.total_steps = executed[Len(executed)].step

\* C2, amended: four consecutive failed actions stop the run at the fourth
\* failure, at whatever step; the status is failed_too_many_errors unless the
\* plan of that step reports completion with confidence above 0.7, and then
\* it is completed.
C2_FourFailuresStop ==
    (FailureRun(4) /\ pc \notin {"wait", "raised"}) =>
        /\ pc \in {"finalize", "returned"}
        /\ workflow.total_steps = executed[Len(executed)].step
        /\ step = executed[Len(executed)].step
        /\ workflow.completion_status =
                IF executed[Len(executed)].plan.is_complete
                        /\ executed[Len(executed)].plan.confidence > 7
                    THEN "completed" ELSE "failed_too_many_errors"

\* steps 2 to 5 failed after a successful step 1
C2_Witness ==
    /\ pc = "returned"
    /\ FailureRun(4)
    /\ Len(executed) = 5
    /\ executed[1].success
    /\ workflow.completion_status = "failed_too_many_errors"
    /\ workflow.total_steps = 5

\* C3: when the loop runs all max_steps steps and none of them stops the run,
\* the returned workflow has status max_steps_reached and total_steps = max_steps.
C3_MaxStepsReached ==
    (pc = "returned" /\ stop = "loop_exhausted") =>
        /\ workflow.completion_status = "max_steps_reached"
        /\ workflow.total_steps = max_steps
        /\ Len(executed) = max_steps

\* a run of MaxSteps steps ended by the step budget
C3_Witness ==
    /\ pc = "returned"
    /\ stop = "loop_exhausted"
    /\ max_steps = MaxSteps
    /\ Len(executed) = MaxSteps

\* C4: a returned workflow has one of the four terminal statuses; once the
\* status has left in_progress it never changes again, and no planner call, no
\* action and no UIState record follows.
C4_TerminalOnce ==
    /\ [](pc = "returned" => workflow.completion_status \in TerminalStatuses)
    /\ [][workflow.completion_status # "in_progress" =>
            /\ workflow'.completion_status = workflow.completion_status
            /\ workflow'.states = workflow.states
            /\ planned' = planned
            /\ executed' = executed
            /\ step' = step]_vars

\* a run that reported completion with steps to spare has returned
C4_Witness ==
    /\ pc = "returned"
    /\ workflow.completion_status = "completed"
    /\ workflow.total_steps < max_steps

\* C5: when the previous step's action was a successful final submit and the
\* URL at the start of this step has the created-entity shape of the task's
\* noun, the snapshot phase sets completed with total_steps = this step and
\* leaves the loop without a planner call.
C5_EarlyCompletion ==
    [][(/\ pc = "snapshot"
        /\ pc' # "raised"
        /\ Len(executed) >= 1
        /\ executed[Len(executed)].step = step - 1
        /\ executed[Len(executed)].success
        /\ IsFinalSubmit(executed[Len(executed)].plan.target)
        /\ UrlIndicatesSuccess(task, page_url, initial_url))
       => (/\ pc' = "finalize"
           /\ workflow'.completion_status = "completed"
           /\ workflow'.total_steps = step
           /\ planned' = planned
           /\ Len(planned) = step - 1)]_vars

\* a run was completed by the URL check at a step the planner never saw
C5_Witness ==
    /\ pc = "returned"
    /\ stop = "early_completion"
    /\ workflow.completion_status = "completed"
    /\ workflow.total_steps = Len(planned) + 1
    /\ workflow.total_steps >= 3

\* the last plan is a type plan with the signature, the field purpose and the
\* Y bucket of the plan before it, and the call for the plan before it succeeded
RepeatedTypeAfterSuccess ==
    /\ Len(planned) >= 2
    /\ planned[Len(planned)].action = "type"
    /\ ActionSignature(planned[Len(planned)]) = ActionSignature(planned[Len(planned) - 1])
    /\ planned[Len(planned)].field_purpose = planned[Len(planned) - 1].field_purpose
    /\ Bucket(planned[Len(planned)].target_y_position)
            = Bucket(planned[Len(planned) - 1].target_y_position)
    /\ Len(executed) >= Len(planned) - 1
    /\ executed[Len(planned) - 1].success
    /\ pc # "execute"

RepeatSkipped ==
    /\ Len(executed) = Len(planned)
    /\ executed[Len(executed)].success
    /\ executed[Len(executed)].message = "Skipped (already filled)"
    /\ executed[Len(executed)].resolver = "none"
    /\ stop # "repetition_guard"
    /\ workflow.completion_status # "failed_infinite_loop"

\* C6 as stated: a type plan repeated right after its success is skipped as
\* already filled, without a resolver call, and does not end the run in
\* failed_infinite_loop.
C6_RepeatIsSkipped == RepeatedTypeAfterSuccess => RepeatSkipped

\* C6, amended: the same, unless the repeated plan is the fourth consecutive
\* plan with that signature.
C6_RepeatIsSkippedBeforeFourth ==
    (RepeatedTypeAfterSuccess /\ ~SameSignatureRun(4)) => RepeatSkipped

\* click 'New project', type the name, type the name again: the second type
\* was skipped
C6_Witness ==
    /\ Len(planned) = 3
    /\ planned[1].action = "click"
    /\ RepeatedTypeAfterSuccess
    /\ executed[2].resolver = "_smart_type"
    /\ RepeatSkipped

\* C7 as stated: between resets the resolver runs at most twice for one field key.
C7_RetryCap == \A k \in DOMAIN resolver_calls : resolver_calls[k] <= 2

----------------------------------------------------------------------------
(* Properties of the attempt counter *)

\* C11: for every key, get_attempts grows by exactly 1 on a mark_filled of that
\* key, is left alone by a mark_filled of another key and by every query, never
\* decreases except through reset(), and goes from positive to 0 only through
\* reset().
C11_AttemptsMonotone ==
    [][\A field_id \in FieldIds, purpose \in Purposes, position_y \in Positions :
        LET before == get_attempts(field_tracker, field_id, purpose, position_y)
            after == get_attempts(field_tracker', field_id, purpose, position_y)
            same_key == create_field_key(field_id, purpose, position_y)
                            = create_field_key(call'.field_id, call'.purpose,
                                               call'.position_y)
        IN  /\ call'.op = "mark_filled" => after = (IF same_key THEN before + 1 ELSE before)
            /\ call'.op # "reset" => after >= before
            /\ (before > 0 /\ after = 0) => call'.op = "reset"
            /\ call'.op = "reset" => after = 0]_vars

\* a key was marked a second time while another key had one attempt
C11_Witness ==
    /\ call.op = "mark_filled"
    /\ get_attempts(field_tracker, call.field_id, call.purpose, call.position_y) = 2
    /\ \E k \in DOMAIN field_tracker.field_attempts : field_tracker.field_attempts[k] = 1

----------------------------------------------------------------------------
(* Properties of the executor's error handling *)

\* C12 as stated: execute_action never raises; for every action plan (target
\* present, empty, missing or null) it returns a (success, message) pair, and
\* when the resolver or the driver threw, success is False and the message
\* carries the exception text.
C12_NeverRaises ==
    call.op = "execute_action" =>
        /\ ~call.raises
        /\ call.threw =>
                /\ ~call.success
                /\ call.message \in {"Error: driver exception",
                                     "Key press error: driver exception"}

\* C13 as stated: a driver exception at any point of a step of execute_task
\* never leaves the step loop.  One thrown by the screenshot, the DOM snapshot,
\* the 2 s wait of the early check or the post-action wait does not end the run
\* by exception, and one thrown under execute_action is a failed action after
\* which the step goes on.
C13_DriverExceptionStaysInLoop ==
    [][/\ pc \in {"snapshot", "wait"} => pc' # "raised"
       /\ (pc = "execute" /\ call'.threw) => (pc' = "wait" /\ ~call'.success)]_vars

----------------------------------------------------------------------------
(* Properties of the planner adapter *)

\* the answers of the scenarios that are no text, hold no JSON object, or hold
\* one that does not parse
DegradedResponses ==
    {Response(TRUE, None), Response(FALSE, None), Answer("I cannot see the page"),
     Answer("} then {"), Answer("{\"action\":\"click\",\"target\":}")}

\* C14: analyze_and_plan returns a plan whatever the planner does; when the
\* planner call raises, or its answer holds no JSON object or one that does not
\* parse, the plan is a wait with is_complete False and confidence at most 0.3,
\* and the step that runs it does not complete the run by self-report.
C14_DegradedPlan ==
    /\ [][call'.op = "analyze_and_plan" =>
            /\ "action" \in DOMAIN call'.plan
            /\ call'.response \in DegradedResponses =>
                    /\ call'.plan.action = "wait"
                    /\ ~call'.plan.is_complete
                    /\ call'.plan.confidence <= 3
                    /\ action_plan' = ReadPlan(call'.plan)
                    /\ ~SelfReportsCompletion(action_plan')]_vars
    /\ [][(pc = "wait" /\ ~action_plan.is_complete) => stop' # "self_report"]_vars

\* a run that met both degraded plans was ended by the repetition guard
C14_Witness ==
    /\ pc = "returned"
    /\ \E i, j \in 1..Len(planned) :
            /\ planned[i] = ReadPlan(ErrorPlan)
            /\ planned[j] = ReadPlan(UnparsedPlan)
    /\ workflow.completion_status = "failed_infinite_loop"

----------------------------------------------------------------------------
(* Properties of the self-report test *)

\* C20: once the action of a step has been executed and the post-action wait
\* has returned, a plan with is_complete true and confidence strictly above 0.7
\* sets completed with total_steps equal to that step and leaves the loop,
\* whether the action succeeded or failed; with confidence 0.7 or lower, or
\* is_complete false, the self-report does not end the run.
C20_SelfReport ==
    [][(pc = "wait" /\ pc' # "raised") =>
            IF action_plan.is_complete /\ action_plan.confidence > 7
                THEN /\ pc' = "finalize"
                     /\ stop' = "self_report"
                     /\ workflow'.completion_status = "completed"
                     /\ workflow'.total_steps = step
                     /\ step' = step
                     /\ executed[Len(executed)].step = step
                ELSE /\ stop' # "self_report"
                     /\ workflow'.completion_status # "completed"]_vars

\* a plan reporting completion with confidence 0.7 was run at step 1 and did
\* not end the run; the plan of step 2 reported it with 0.9, its action
\* failed, and the run returned completed at step 2
C20_Witness ==
    /\ pc = "returned"
    /\ stop = "self_report"
    /\ Len(executed) = 2
    /\ planned[1].is_complete
    /\ planned[1].confidence = 7
    /\ ~executed[2].success
    /\ workflow.completion_status = "completed"
    /\ workflow.total_steps = 2

----------------------------------------------------------------------------
(* Properties of the tracker reset of execute_action *)

\* new/create/add plus an entity noun
CreationWording(target) ==
    /\ \E verb \in {"new", "create", "add"} : Contains(Spell(verb), Lower(target))
    /\ \E noun \in {"repository", "project", "issue"} : Contains(Spell(noun), Lower(target))

\* one of the six words of the code's test
CreationKeyword(target) ==
    \E word \in {"create", "new", "add", "repository", "project", "issue"} :
        Contains(Spell(word), Lower(target))

\* the call was a click or navigate that succeeded
ClickSucceeded(c) ==
    /\ ~c.raises
    /\ c.plan.action \in {"click", "navigate"}
    /\ c.success

\* what a call without reset leaves of the tracker: every filled key stays filled
KeepsFilledKeys ==
    /\ DOMAIN field_tracker.filled_fields \subseteq DOMAIN field_tracker'.filled_fields
    /\ \A k \in DOMAIN field_tracker.field_attempts :
            /\ k \in DOMAIN field_tracker'.field_attempts
            /\ field_tracker'.field_attempts[k] >= field_tracker.field_attempts[k]

\* C19 as stated: execute_action resets the tracker exactly when a click or
\* navigate succeeded and its target has a creation verb and an entity noun;
\* every other call keeps the filled keys.
C19_ResetOnVerbAndNoun ==
    [][call'.op = "execute_action" =>
        IF ClickSucceeded(call') /\ CreationWording(Strip(call'.plan.target))
            THEN call'.reset /\ field_tracker' = FreshTracker
            ELSE ~call'.reset /\ KeepsFilledKeys]_vars

\* C19, amended: execute_action resets the tracker exactly when a click or
\* navigate succeeded and its target contains, in any letter case, one of the
\* words create, new, add, repository, project, issue; a failed click, a
\* successful click on a target with none of them and every other action keep
\* every filled key and its attempt count.
C19_ResetOnKeyword ==
    [][call'.op = "execute_action" =>
        IF ClickSucceeded(call') /\ CreationKeyword(Strip(call'.plan.target))
            THEN call'.reset /\ field_tracker' = FreshTracker
            ELSE ~call'.reset /\ KeepsFilledKeys]_vars

\* a successful click on 'Issues', a target with an entity noun and no creation
\* verb, has reset the tracker
C19_Witness ==
    /\ call.op = "execute_action"
    /\ call.plan.target = "Issues"
    /\ call.success
    /\ call.reset
    /\ field_tracker = FreshTracker

----------------------------------------------------------------------------
(* Properties of the resolvers *)

ResolverSucceeded(op) ==
    /\ call.op = op
    /\ call.success

\* the element a successful resolver call clicked or wrote to
Acted == scenario.page[call.element]

\* C15: none of _smart_click, _smart_type and _type_contenteditable clicks or
\* writes to a disabled candidate: the element of a successful result is never
\* disabled, natively or by aria-disabled.
C15_NeverDisabled ==
    \A op \in {"_smart_click", "_smart_type", "_type_contenteditable"} :
        ResolverSucceeded(op) => ~IsDisabled(Acted)

\* C16: for a final-submit target of more than one word, _smart_click clicks only
\* a candidate whose text holds the whole target phrase, whatever the case of the
\* letters, in every strategy and in the last-resort scan of the buttons.
C16_FullPhraseOnly ==
    (ResolverSucceeded("_smart_click") /\ ClickIsMultiWordSubmit(call.target))
        => Contains(Lower(call.target), Lower(Acted.text))

\* C17: for an intermediate target, _smart_click never clicks a candidate whose
\* text holds final-submit phrasing (create repository, create project, create
\* issue, submit, publish or save).
C17_NoFinalSubmitForIntermediate ==
    (ResolverSucceeded("_smart_click") /\ ClickIsIntermediate(call.target))
        => ~ClickIsFinalSubmit(Acted.text)

\* how far apart two vertical positions are
Apart(a, b) == IF a >= b THEN a - b ELSE b - a

\* C18 as stated: with target_y > 0, _smart_type writes to the candidate closest
\* to target_y among all the candidates it measured.
C18_ClosestOfMeasured ==
    (ResolverSucceeded("_smart_type") /\ call.target_y > 0)
        => \A c \in call.best.seen :
                Apart(Acted.y, call.target_y)
                    <= Apart(scenario.page[c.element].y, call.target_y)

\* C18: with target_y > 0, _smart_type writes to a candidate less than 150 px
\* from target_y, and no measured candidate that lay within the limit of its
\* strategy (80 px for strategies 1 to 6, 150 px for the later ones) is closer;
\* so of two fields at Y=100 and Y=500 with target_y=510 it is never the Y=100
\* field that is written.
C18_ClosestWithinLimit ==
    (ResolverSucceeded("_smart_type") /\ call.target_y > 0)
        => /\ Apart(Acted.y, call.target_y) < 150
           /\ \A c \in call.best.seen :
                LET y == scenario.page[c.element].y
                IN  Apart(y, call.target_y) < MaxDistance(c.strategy)
                        => Apart(Acted.y, call.target_y) <= Apart(y, call.target_y)

\* fields at Y=100 and Y=500 were both measured for target_y=510 and the Y=500
\* field was written
C18_Witness ==
    /\ ResolverSucceeded("_smart_type")
    /\ call.target_y = 510
    /\ Acted.y = 500
    /\ \E c \in call.best.seen : scenario.page[c.element].y = 100
    /\ \E c \in call.best.seen : c.element = call.element

----------------------------------------------------------------------------
(* Properties of the step loop *)

\* the loop body has started at most max_steps times and the step count the
\* workflow reports is at most max_steps
StepsBounded ==
    /\ step <= max_steps
    /\ Len(planned) <= max_steps
    /\ Len(workflow.states) <= max_steps
    /\ workflow.total_steps <= max_steps

\* execute_task is left by an exception only when an awaited driver call raised
LeftByDriverOnly == pc = "raised" => ~(call.op = "execute_action" /\ call.raises)

\* C21: the step loop runs at most max_steps iterations and then returns,
\* whatever the planner proposes and whatever the actions report, as long as
\* every awaited planner and driver call returns; total_steps never exceeds
\* max_steps.
C21_BoundedThenReturns == StepsBounded /\ LeftByDriverOnly

\* the events of one step in the order of their awaited calls, and the stages
\* each one hands over to
StepOrder ==
    /\ pc = "snapshot" => pc' \in {"snapshot", "plan", "finalize", "raised"}
    /\ pc = "plan" => pc' \in {"plan", "execute", "finalize"}
    /\ pc = "execute" => pc' \in {"execute", "wait", "raised"}
    /\ pc = "wait" => pc' \in {"wait", "snapshot", "finalize", "raised"}

\* each piece of bookkeeping changes only in the stage it belongs to
StageOwnsItsState ==
    /\ (planned' # planned \/ same_action_count' # same_action_count
            \/ last_action_signature' # last_action_signature
            \/ workflow'.states # workflow.states)
        => pc = "plan"
    /\ (executed' # executed \/ consecutive_failures' # consecutive_failures
            \/ actions_taken' # actions_taken \/ field_tracker' # field_tracker
            \/ page_url' # page_url)
        => pc = "execute"
    /\ step' # step => pc = "wait" /\ step' = step + 1 /\ pc' = "snapshot"

\* at most one action is under way and it belongs to the current step: the
\* plans, the UIState records and the executed actions are one per step, each
\* drawn up before the next kind, and all earlier steps are complete
OneStepAtATime ==
    /\ Len(executed) <= Len(workflow.states)
    /\ Len(workflow.states) <= Len(planned)
    /\ Len(planned) <= step
    /\ Len(planned) <= Len(executed) + 1
    /\ \A i \in 1..Len(executed) : executed[i].step = i
    /\ \A i \in 1..Len(workflow.states) :
            /\ workflow.states[i].step_number = i
            /\ Len(workflow.states[i].actions_taken) = i - 1
    /\ pc \in {"snapshot", "plan"} => Len(planned) = step - 1 /\ Len(executed) = step - 1
    /\ pc = "execute" =>
            /\ Len(planned) = step
            /\ Len(workflow.states) = step
            /\ Len(executed) = step - 1
    /\ pc = "wait" => Len(executed) = step /\ Len(actions_taken) = step

\* C22: the events of a step are strictly ordered: snapshot, planner call,
\* repetition guard, UIState record, action execution, failure bookkeeping,
\* post-action wait. The snapshot of step n+1 never precedes the wait and the
\* bookkeeping of step n, and no two driver actions are in flight at once.
C22_StepsInOrder == [][StepOrder /\ StageOwnsItsState /\ OneStepAtATime']_vars

\* the snapshot of step 2 is about to be taken, after the action, the
\* bookkeeping and the wait of step 1
C22_Witness ==
    /\ pc = "snapshot"
    /\ step = 2
    /\ Len(executed) = 1
    /\ Len(actions_taken) = 1
    /\ Len(workflow.states) = 1

----------------------------------------------------------------------------
(* Properties of the field key *)

\* the multiple of 100 nearest to a position
Nearest100(position_y) == ((position_y + 50) \div 100) * 100

\* C23: create_field_key buckets position_y to the nearest 100 px: two
\* observations of one field (same id and purpose) get the same key exactly
\* when their positions round to the same multiple of 100, as 95 and 105 do.
C23_NearestHundred ==
    call.op = "mark_filled" =>
        \A position_y \in Positions :
            is_filled(field_tracker, call.field_id, call.purpose, position_y)
                <=> Nearest100(position_y) = Nearest100(call.position_y)

----------------------------------------------------------------------------
(* Properties of the stop tests *)

\* C24: the early-completion URL check runs at step n only when step n-1
\* executed a final submit successfully; a final submit of an earlier step
\* does not cause the check at later steps.
C24_CheckOnlyAfterSubmit ==
    (pc = "snapshot" /\ creation_completed) =>
        /\ Len(executed) >= 1
        /\ executed[Len(executed)].step = step - 1
        /\ executed[Len(executed)].success
        /\ IsFinalSubmit(executed[Len(executed)].plan.target)

\* same_action_count is the number of plans, before the latest one, in the
\* unbroken run of plans that share the latest plan's signature
CountsLatestRun ==
    Len(planned) >= 1 =>
        /\ SameSignatureRun(same_action_count + 1)
        /\ ~SameSignatureRun(same_action_count + 2)

\* C25: a plan whose signature differs from the previous plan's resets
\* same_action_count to 0 whatever it was, and the run ends with
\* failed_infinite_loop only on a plan whose signature equals those of the
\* plans right before it.
C25_ResetOnDifferentSignature ==
    [][planned' # planned =>
            /\ ActionSignature(planned'[Len(planned')]) # last_action_signature
                => /\ same_action_count' = 0
                   /\ workflow'.completion_status # "failed_infinite_loop"
            /\ workflow'.completion_status = "failed_infinite_loop"
                => /\ workflow.completion_status # "failed_infinite_loop"
                   /\ ActionSignature(planned'[Len(planned')]) = last_action_signature
                   /\ SameSignatureRun(4)'
            /\ CountsLatestRun']_vars

\* two plans with one signature raised the count to 1 and a third plan with
\* another signature has just reset it
C25_Witness ==
    /\ pc = "execute"
    /\ Len(planned) >= 3
    /\ same_action_count = 0
    /\ ActionSignature(planned[Len(planned) - 1]) = ActionSignature(planned[Len(planned) - 2])
    /\ ActionSignature(planned[Len(planned)]) # ActionSignature(planned[Len(planned) - 1])

\* C26: after each step whose execute_action call returned,
\* consecutive_failures is 0 if it returned success (the skip results for
\* already-filled fields included) and the previous value plus 1 otherwise;
\* a failed action does not end the run as long as the count is below 4.
C26_FailureCount ==
    [][/\ executed' # executed =>
            /\ call'.op = "execute_action"
            /\ call'.success => consecutive_failures' = 0
            /\ ~call'.success => consecutive_failures' = consecutive_failures + 1
            /\ call'.message \in {"Skipped (already filled)", "Skipped (too many attempts)"}
                => call'.success
       /\ (pc = "wait" /\ consecutive_failures < 4 /\ pc' = "finalize")
            => /\ stop' \in {"self_report", "loop_exhausted"}
               /\ workflow'.completion_status # "failed_too_many_errors"
       /\ workflow'.completion_status = "failed_too_many_errors"
            => consecutive_failures' >= 4 /\ FailureRun(4)']_vars

\* a failed action raised the count, the run went on, and the skip of an
\* already filled field has just put the count back to 0
C26_Witness ==
    /\ pc = "wait"
    /\ Len(executed) >= 2
    /\ ~executed[Len(executed) - 1].success
    /\ executed[Len(executed) - 1].resolver # "none"
    /\ executed[Len(executed)].message = "Skipped (already filled)"
    /\ consecutive_failures = 0

----------------------------------------------------------------------------
(* Properties of the plans and of the workflow log *)

C28_StatesAppendOnly ==
    [][/\ \/ workflow'.states = workflow.states
          \/ /\ pc = "plan"
             /\ pc' = "execute"
             /\ workflow'.states =
                    Append(workflow.states,
                           [step_number |-> step, url |-> page_url,
                            actions_taken |-> actions_taken])
       /\ executed' # executed =>
            /\ workflow'.states = workflow.states
            /\ Len(workflow.states) = Len(executed')
            /\ workflow.states[Len(workflow.states)].step_number = executed'[Len(executed')].step
            /\ Len(workflow.states[Len(workflow.states)].actions_taken) = Len(actions_taken') - 1
      ]_vars

\* two actions have run: the UIState of step 1 still has the empty history it
\* was recorded with and the UIState of step 2 the one summary of step 1,
\* while actions_taken has grown to two summaries
C28_Witness ==
    /\ pc = "wait"
    /\ Len(workflow.states) = 2
    /\ Len(actions_taken) = 2
    /\ workflow.states[1].actions_taken = <<>>
    /\ workflow.states[2].actions_taken = <<actions_taken[1]>>

\* C29: when on one step the plan self-reports completion (is_complete with
\* confidence above 0.7) and consecutive_failures has reached 4, the completion
\* test is evaluated first and the run ends with status completed, not with
\* failed_too_many_errors.
C29_CompletionBeforeFailureBudget ==
    [][(/\ pc = "wait"
        /\ action_plan.is_complete
        /\ action_plan.confidence > 7
        /\ consecutive_failures >= 4
        /\ pc' \notin {"wait", "raised"})
       => (/\ pc' = "finalize"
           /\ workflow'.completion_status = "completed"
           /\ workflow'.total_steps = step
           /\ stop' = "self_report")]_vars

\* the fourth failed action in a row came from a plan that reports completion,
\* and the run has returned as completed
C29_Witness ==
    /\ pc = "returned"
    /\ stop = "self_report"
    /\ workflow.completion_status = "completed"
    /\ consecutive_failures = 4
    /\ FailureRun(4)
    /\ action_plan.is_complete
    /\ action_plan.confidence > 7

----------------------------------------------------------------------------
(* Properties of the distance thresholds of _smart_type *)

\* the threshold the claim gives for a candidate found by strategy i
ClaimedThreshold(i) == IF i <= 6 THEN 80 ELSE 150

\* C30: with target_y > 0, the element _smart_type writes to is less than
\* 80 px from target_y when one of the first six strategies found it and less
\* than 150 px when a later strategy did; when no candidate it measured is
\* within the threshold of its strategy, _smart_type returns failure and
\* writes to nothing.
C30_WithinThreshold ==
    (call.op = "_smart_type" /\ call.target_y > 0) =>
        /\ call.success =>
            /\ call.best.strategy_used >= 1
            /\ Apart(Acted.y, call.target_y) < ClaimedThreshold(call.best.strategy_used)
            /\ \E c \in call.best.seen :
                /\ c.element = call.element
                /\ c.strategy = call.best.strategy_used
        /\ (\A c \in call.best.seen :
                Apart(scenario.page[c.element].y, call.target_y)
                    >= ClaimedThreshold(c.strategy))
            => /\ ~call.success
               /\ call.element = 0
               /\ call.message = "Could not find field: " \o call.target

\* a field between 80 and 150 px from target_y was written: a strategy after
\* the sixth found it
C30_Witness ==
    /\ ResolverSucceeded("_smart_type")
    /\ call.target_y > 0
    /\ call.best.strategy_used > 6
    /\ Apart(Acted.y, call.target_y) >= 80
    /\ Apart(Acted.y, call.target_y) < 150

----------------------------------------------------------------------------
(* Properties of the tracker's keys and values *)

\* C40: create_field_key is injective on (field_id, purpose, Y bucket): two
\* triples that differ in a component never get the same key, also when
\* field_id or purpose hold the separator '|'. So when one field has been
\* marked, only its own triple is reported filled.
C40_KeyInjective ==
    (call.op = "mark_filled" /\ Cardinality(DOMAIN field_tracker.filled_fields) = 1) =>
        \A field_id \in FieldIds, purpose \in Purposes, position_y \in Positions :
            is_filled(field_tracker, field_id, purpose, position_y)
                => /\ field_id = call.field_id
                   /\ purpose = call.purpose
                   /\ Bucket(position_y) = Bucket(call.position_y)

\* C36: in every tracker state reached through execute_action, field_attempts
\* and filled_fields have the same keys and every stored attempt count is 1; a
\* typing action that fails leaves the attempt counts as they were, and
\* 'Skipped (too many attempts)' is never returned.
C36_AttemptsAlwaysOne ==
    [][/\ DOMAIN field_tracker'.field_attempts = DOMAIN field_tracker'.filled_fields
       /\ \A k \in DOMAIN field_tracker'.field_attempts : field_tracker'.field_attempts[k] = 1
       /\ (call'.op = "execute_action" /\ ~call'.success)
            => field_tracker'.field_attempts = field_tracker.field_attempts
       /\ call'.op = "execute_action" => call'.message # "Skipped (too many attempts)"]_vars

\* a field is filled with one attempt on record, and the resolver has been run
\* three times in vain for another field, which has no attempt on record
C36_Witness ==
    /\ call.op = "execute_action"
    /\ call.plan.action \in {"type", "type_contenteditable"}
    /\ call.resolver # "none"
    /\ ~call.success
    /\ field_tracker.filled_fields # EmptyDict
    /\ Get(resolver_calls, PlanKey(call.plan), 0) = 3
    /\ PlanKey(call.plan) \notin DOMAIN field_tracker.field_attempts

\* C37: through execute_action the value stored for a filled key stays what
\* it is until reset(): a later typing plan for the same target, purpose and Y
\* bucket with another value is skipped, so the new value is neither written
\* to the page nor recorded in filled_fields.
C37_ValueKeptUntilReset ==
    [][call'.op = "execute_action" =>
        /\ ~call'.reset =>
                \A k \in DOMAIN field_tracker.filled_fields :
                    /\ k \in DOMAIN field_tracker'.filled_fields
                    /\ field_tracker'.filled_fields[k] = field_tracker.filled_fields[k]
        /\ call'.reset => field_tracker'.filled_fields = EmptyDict
        /\ (/\ call'.plan.action \in {"type", "type_contenteditable"}
            /\ call'.plan.target # None
            /\ PlanKey(call'.plan) \in DOMAIN field_tracker.filled_fields)
            => /\ call'.success
               /\ call'.message = "Skipped (already filled)"
               /\ call'.resolver = "none"
               /\ field_tracker' = field_tracker
               /\ resolver_calls' = resolver_calls
               /\ page_url' = page_url]_vars

\* the name field holds 'Roadmap Q1' and the plan to type 'Other' into it, at
\* another Y of the same bucket, has just been skipped
C37_Witness ==
    /\ call.op = "execute_action"
    /\ call.plan.action = "type"
    /\ call.plan.value = "Other"
    /\ call.message = "Skipped (already filled)"
    /\ field_tracker.filled_fields[PlanKey(call.plan)] = "Roadmap Q1"

----------------------------------------------------------------------------
(* Properties of the returned workflow and of the counters *)

\* C38: when execute_task returns, len(workflow.states) equals total_steps if
\* the run ended by self-reported completion, failed_too_many_errors or
\* max_steps_reached, and total_steps - 1 if it ended by the repetition guard
\* or by the early-completion check: the step that stops the run in those two
\* cases is not recorded and its action is not executed.
C38_StatesAndTotalSteps ==
    pc = "returned" =>
        /\ Len(executed) = Len(workflow.states)
        /\ stop \in {"self_report", "failure_budget", "loop_exhausted"}
            => Len(workflow.states) = workflow.total_steps
        /\ stop \in {"repetition_guard", "early_completion"}
            => Len(workflow.states) = workflow.total_steps - 1
        /\ stop = "self_report" <=>
            (workflow.completion_status = "completed"
                /\ Len(workflow.states) = workflow.total_steps)
        /\ stop = "early_completion" <=>
            (workflow.completion_status = "completed"
                /\ Len(workflow.states) # workflow.total_steps)
        /\ stop = "failure_budget" <=> workflow.completion_status = "failed_too_many_errors"
        /\ stop = "loop_exhausted" <=> workflow.completion_status = "max_steps_reached"
        /\ stop = "repetition_guard" <=> workflow.completion_status = "failed_infinite_loop"

\* the run returned from the early-completion check of its third step with
\* two recorded states
C38_Witness ==
    /\ pc = "returned"
    /\ stop = "early_completion"
    /\ workflow.total_steps = 3
    /\ Len(workflow.states) = 2
    /\ Len(executed) = 2

\* C39: at the start of every step consecutive_failures is between 0 and 3
\* and same_action_count between 0 and 2, and in no state does
\* consecutive_failures exceed 4 or same_action_count exceed 3.
C39_CounterRanges ==
    /\ consecutive_failures \in 0..4
    /\ same_action_count \in 0..3
    /\ pc = "snapshot" =>
            /\ consecutive_failures \in 0..3
            /\ same_action_count \in 0..2

\* step 4 starts after three failed actions with one signature: both counters
\* are at the top of their ranges
C39_Witness ==
    /\ pc = "snapshot"
    /\ step = 4
    /\ consecutive_failures = 3
    /\ same_action_count = 2

----------------------------------------------------------------------------
(* Properties of the two final-submit tests *)

\* C35: the final-submit test of _smart_click and the final-submit test of
\* execute_task that sets the creation_completed latch agree: a successful
\* click is a final submit for one exactly when it is for the other.
C35_FinalSubmitInSync ==
    ResolverSucceeded("_smart_click") =>
        (ClickIsFinalSubmit(call.target) <=> IsFinalSubmit(call.target))

----------------------------------------------------------------------------
(* Properties of the candidates of a strategy *)

\* the number of the strategy a successful _smart_click call clicked with, 0
\* for the last resort
ClickedWith ==
    LET strategies == ClickStrategiesTable[call.target][call.selector_type]
        naming == {i \in 1..Len(strategies) :
                        call.message = "Clicked using strategy " \o ToString(i)}
    IN  IF naming = {} THEN 0 ELSE CHOOSE i \in naming : TRUE

\* the positions of the elements the strategy of that number matches and the
\* checks of the strategy loop let through
MatchedBy(i) ==
    SelectSeq(Locate(scenario.page,
                     ClickStrategiesTable[call.target][call.selector_type][i]),
              LAMBDA k : ClickCandidate(call.target, ClickIsIntermediate(call.target),
                                        ClickIsMultiWordSubmit(call.target),
                                        scenario.page[k], k) # 0)

\* C32: when a click plan carries target_y_position > 0 and the strategy that
\* clicks matches several candidates, the clicked candidate is the one whose Y
\* is closest to the requested position, not merely the first match.
C32_ClickClosest ==
    (ResolverSucceeded("_smart_click") /\ call.target_y > 0 /\ ClickedWith # 0) =>
        \A n \in 1..Len(MatchedBy(ClickedWith)) :
            Apart(Acted.y, call.target_y)
                <= Apart(scenario.page[MatchedBy(ClickedWith)[n]].y, call.target_y)

\* C34: _type_contenteditable applies the search of _smart_type: on the same
\* ordered candidate matches and the same target_y (0 included) it chooses
\* what the strategy loop of _smart_type chooses, under the same distance
\* thresholds and the same rule for a call without Y; only the way of writing
\* differs.
C34_SameSearch ==
    call.op = "_type_contenteditable" =>
        call.best.match
            = TypeSearch(scenario.page, ContenteditableStrategies(call.target),
                         call.target_y).match

\* the strategies of the _smart_type call that match a visible element
WithVisibleMatch ==
    LET strategies == TypeStrategies(call.target, call.selector_type, call.target_y)
    IN  {i \in 1..Len(strategies) :
            \E k \in 1..Len(scenario.page) :
                /\ IsVisible(scenario.page[k])
                /\ Matches(strategies[i], scenario.page[k])}

\* the first visible match of strategy i of the _smart_type call
FirstVisibleMatch(i) ==
    LET strategies == TypeStrategies(call.target, call.selector_type, call.target_y)
        visible == {k \in 1..Len(scenario.page) :
                        /\ IsVisible(scenario.page[k])
                        /\ Matches(strategies[i], scenario.page[k])}
    IN  CHOOSE k \in visible : \A other \in visible : k <= other

\* C31: with target_y = 0, _smart_type writes to the first visible match of the
\* earliest strategy of its ordered list that has one; the match of an earlier
\* strategy is never replaced by the match of a later one.
C31_EarliestStrategyWins ==
    (ResolverSucceeded("_smart_type") /\ call.target_y = 0) =>
        /\ WithVisibleMatch # {}
        /\ call.element =
                FirstVisibleMatch(CHOOSE i \in WithVisibleMatch :
                                        \A j \in WithVisibleMatch : i <= j)

----------------------------------------------------------------------------
(* Properties of the write techniques of _smart_type *)

\* _smart_type chose an element and its first click on it went through
WritingStarted ==
    /\ call.op = "_smart_type"
    /\ call.best.match # 0
    /\ call.message # "Typing error: driver exception"

\* C33: _smart_type tries the three write techniques on the chosen element in
\* the order fill, select-all and keyboard typing, press_sequentially; a later
\* technique is tried only if all the earlier ones raised, and the result is
\* success exactly when one technique completed without an error, 'All typing
\* methods failed' otherwise.
C33_TechniquesInOrder ==
    WritingStarted =>
        /\ Len(call.attempted) \in 1..3
        /\ call.attempted
                = SubSeq(<<"fill", "keyboard", "press_sequentially">>, 1, Len(call.attempted))
        /\ \A n \in 1..Len(call.attempted) :
                n < Len(call.attempted) => call.attempted[n] \in call.raising
        /\ Len(call.attempted) < 3 => call.attempted[Len(call.attempted)] \notin call.raising
        /\ call.success <=> call.attempted[Len(call.attempted)] \notin call.raising
        /\ call.success => call.element = call.best.match
        /\ ~call.success => call.message = "All typing methods failed"

\* fill and the keyboard technique raised, press_sequentially completed, and the
\* call reports success
C33_Witness ==
    /\ WritingStarted
    /\ call.raising = {"fill", "keyboard"}
    /\ call.attempted = <<"fill", "keyboard", "press_sequentially">>
    /\ call.success

====
